---- MODULE Spec2Model ----
(***************************************************************************)
(* Model of the interview time-slot matching engine of IntervuAI           *)
(* (src/src/server/services/schedulerService.ts, the buffer-aware two-pass *)
(* SchedulerService that starts at line 625 of the file).                  *)
(*                                                                         *)
(* A time-of-day string "HH:MM" is modelled as the pair <<HH, MM>> of the  *)
(* two numbers it spells; parseTime and formatTime convert between that    *)
(* pair and the parsed record {hours, minutes, totalMinutes}.  A calendar  *)
(* date string is modelled as a day number.  Only validateAvailability,    *)
(* whose work is to tell well-formed text from malformed, sees a string as *)
(* the sequence of its characters.                                         *)
(***************************************************************************)
EXTENDS Integers, Sequences, FiniteSets, TLC

VARIABLES
    request,                \* the ScheduleRequest of the run
    options,                \* the Partial<SchedulingOptions> of the run
    pc,                     \* position inside findOptimalSchedule
    idx,                    \* index of the interviewer the current pass is at
    allInterviews,          \* findIndividualInterviews: allInterviews
    usedCandidateTimeSlots, \* findIndividualInterviews: usedCandidateTimeSlots
    pass1Count,             \* number of interviews pushed by the first pass
    response,               \* what findOptimalSchedule handed to its caller
    ov,                     \* one call of findTimeSlotOverlap: arguments and result
    runs,                   \* the finished runs of findOptimalSchedule, oldest first
    call,                   \* one call of a public method: arguments and result
    db,                     \* the tables of the Database, each a list of rows
    now                     \* the server's clock, counted in requests served

vars == <<request, options, pc, idx, allInterviews, usedCandidateTimeSlots,
          pass1Count, response, ov, runs, call, db, now>>

-----------------------------------------------------------------------------
(* Bounds of the model.                                                    *)

NumInterviewers == 2
MaxRecords == 2

(* Program constants.                                                      *)

MinutesPerDay == 1440
DefaultDuration == 60
DefaultBufferTime == 30
DefaultMaxSuggestions == 5
FallbackBufferTime == 15
MaxStep == 15
BaseScore == 100

-----------------------------------------------------------------------------
(* Time arithmetic.                                                        *)

parseTime(timeStr) ==
    [hours |-> timeStr[1], minutes |-> timeStr[2],
     totalMinutes |-> timeStr[1] * 60 + timeStr[2]]

formatTime(time) == <<time.hours, time.minutes>>

maxTime(time1, time2) ==
    IF time1.totalMinutes >= time2.totalMinutes THEN time1 ELSE time2

minTime(time1, time2) ==
    IF time1.totalMinutes <= time2.totalMinutes THEN time1 ELSE time2

\* Not the code: the plain difference, negative when end is before start.
timeDifference_plain(start, end) == end.totalMinutes - start.totalMinutes

timeDifference(start, end) ==
    IF end.totalMinutes < start.totalMinutes
    THEN (end.totalMinutes + MinutesPerDay) - start.totalMinutes
    ELSE end.totalMinutes - start.totalMinutes

minutesToTime(totalMinutes) ==
    LET normalizedMinutes == totalMinutes % MinutesPerDay
    IN  [hours |-> normalizedMinutes \div 60,
         minutes |-> normalizedMinutes % 60,
         totalMinutes |-> normalizedMinutes]

addMinutesToTime(timeStr, minutes) ==
    formatTime(minutesToTime(parseTime(timeStr).totalMinutes + minutes))

Min(a, b) == IF a <= b THEN a ELSE b
Max(a, b) == IF a >= b THEN a ELSE b

-----------------------------------------------------------------------------
(* Slot overlap finder.                                                    *)

\* Not the code: a step of 15 minutes whatever time is available.
intervalMinutes_fixed(availableDuration) == MaxStep

\* Math.min(15, Math.max(1, Math.floor(availableDuration / 4)))
intervalMinutes(availableDuration) ==
    Min(MaxStep, Max(1, availableDuration \div 4))

\* The slot the for loop builds at one offset.
SlotAtOffset(slot1, overlapStart, offset, requiredDuration) ==
    LET slotStartTime == minutesToTime(overlapStart.totalMinutes + offset)
    IN  [date |-> slot1.date,
         start |-> formatTime(slotStartTime),
         end |-> addMinutesToTime(formatTime(slotStartTime), requiredDuration)]

\* if (overlapDuration < requiredDuration) return []
notEnoughTime_inclusive(overlapDuration, requiredDuration) ==
    overlapDuration <= requiredDuration

notEnoughTime(overlapDuration, requiredDuration) ==
    overlapDuration < requiredDuration

findTimeSlotOverlap(slot1, slot2, requiredDuration) ==
    LET start1 == parseTime(slot1.start)
        end1 == parseTime(slot1.end)
        start2 == parseTime(slot2.start)
        end2 == parseTime(slot2.end)
        overlapStart == maxTime(start1, start2)
        overlapEnd == minTime(end1, end2)
        overlapDuration == timeDifference(overlapStart, overlapEnd)
        availableDuration == overlapDuration - requiredDuration
        step == intervalMinutes(availableDuration)
        \* offsets 0, step, 2*step, ... while offset <= availableDuration
        generated == [k \in 1..(availableDuration \div step + 1) |->
                        SlotAtOffset(slot1, overlapStart, (k - 1) * step,
                                     requiredDuration)]
        possibleSlots ==
            SelectSeq(generated,
                      LAMBDA s: parseTime(s.end).totalMinutes
                                    <= overlapEnd.totalMinutes)
    IN  IF notEnoughTime(overlapDuration, requiredDuration) THEN <<>>
        ELSE IF possibleSlots = <<>>
             THEN <<[date |-> slot1.date,
                     start |-> formatTime(overlapStart),
                     end |-> addMinutesToTime(formatTime(overlapStart),
                                              requiredDuration)]>>
             ELSE possibleSlots

-----------------------------------------------------------------------------
(* Sequence helpers for the nested forEach loops.                          *)

RECURSIVE ConcatAll(_)
ConcatAll(seqs) ==
    IF seqs = <<>> THEN <<>> ELSE Head(seqs) \o ConcatAll(Tail(seqs))

MapSeq(seq, Op(_)) == [i \in 1..Len(seq) |-> Op(seq[i])]

-----------------------------------------------------------------------------
(* findOverlappingSlots.                                                   *)

\* Not the code: the candidate's slots of every date, the date not looked at.
candidateMapGet_anyDate(candidateAvailability, date) ==
    ConcatAll(MapSeq(candidateAvailability, LAMBDA a: a.time_slots))

\* candidateMap.get(date): the candidate's slots of that date, over all the
\* candidate's availability records, in submission order.
candidateMapGet(candidateAvailability, date) ==
    SelectSeq(ConcatAll(MapSeq(candidateAvailability, LAMBDA a: a.time_slots)),
              LAMBDA slot: slot.date = date)

timeSlotMatch(interviewerSlot, slot, opts) ==
    [date |-> interviewerSlot.date,
     startTime |-> slot.start,
     endTime |-> slot.end,
     duration |-> opts.duration,
     score |-> BaseScore,
     reasons |-> <<>>]

findOverlappingSlots(candidateAvailability, interviewerAvailability, opts) ==
    ConcatAll(MapSeq(interviewerAvailability, LAMBDA interviewerAvail:
      ConcatAll(MapSeq(interviewerAvail.time_slots, LAMBDA interviewerSlot:
        ConcatAll(MapSeq(candidateMapGet(candidateAvailability,
                                         interviewerSlot.date),
          LAMBDA candidateSlot:
            MapSeq(findTimeSlotOverlap(interviewerSlot, candidateSlot,
                                       opts.duration),
                   LAMBDA slot: timeSlotMatch(interviewerSlot, slot, opts))))))))

-----------------------------------------------------------------------------
(* Conflict tests.                                                         *)

\* Not the code: the second comparison turned around.
hasCandidateTimeConflict_flipped(proposedSlot, usedSlots, bufferMinutes) ==
    \E i \in 1..Len(usedSlots) :
        /\ usedSlots[i].date = proposedSlot.date
        /\ parseTime(proposedSlot.start).totalMinutes
               < parseTime(usedSlots[i].end).totalMinutes + bufferMinutes
        /\ parseTime(proposedSlot.end).totalMinutes
               < parseTime(usedSlots[i].start).totalMinutes

\* Pass 1: hasCandidateTimeConflict(proposedSlot, usedCandidateTimeSlots, buffer)
hasCandidateTimeConflict(proposedSlot, usedSlots, bufferMinutes) ==
    LET sameDaySlots == SelectSeq(usedSlots,
                                  LAMBDA slot: slot.date = proposedSlot.date)
        proposedStart == parseTime(proposedSlot.start)
        proposedEnd == parseTime(proposedSlot.end)
    IN  \E i \in 1..Len(sameDaySlots) :
            LET existingStart == parseTime(sameDaySlots[i].start)
                existingEnd == parseTime(sameDaySlots[i].end)
                existingEndWithBuffer == existingEnd.totalMinutes + bufferMinutes
            IN  /\ proposedStart.totalMinutes < existingEndWithBuffer
                /\ proposedEnd.totalMinutes > existingStart.totalMinutes

\* Not the code: the date of the scheduled interview not looked at.
conflictsWithScheduled_anyDate(proposedSlot, interviews, bufferMinutes) ==
    \E i \in 1..Len(interviews) :
        /\ parseTime(proposedSlot.start).totalMinutes
               < parseTime(interviews[i].endTime).totalMinutes + bufferMinutes
        /\ parseTime(proposedSlot.end).totalMinutes
               > parseTime(interviews[i].startTime).totalMinutes

\* Not the code: the buffer left out of the comparison.
conflictsWithScheduled_noBuffer(proposedSlot, interviews, bufferMinutes) ==
    \E i \in 1..Len(interviews) :
        /\ interviews[i].date = proposedSlot.date
        /\ parseTime(proposedSlot.start).totalMinutes
               < parseTime(interviews[i].endTime).totalMinutes
        /\ parseTime(proposedSlot.end).totalMinutes
               > parseTime(interviews[i].startTime).totalMinutes

\* Pass 2: the inline allInterviews.some(...) test
conflictsWithScheduled(proposedSlot, interviews, bufferMinutes) ==
    \E i \in 1..Len(interviews) :
        /\ interviews[i].date = proposedSlot.date
        /\ LET scheduledStart == parseTime(interviews[i].startTime)
               scheduledEnd == parseTime(interviews[i].endTime)
               proposedStart == parseTime(proposedSlot.start)
               proposedEnd == parseTime(proposedSlot.end)
               scheduledEndWithBuffer == scheduledEnd.totalMinutes + bufferMinutes
           IN  /\ proposedStart.totalMinutes < scheduledEndWithBuffer
               /\ proposedEnd.totalMinutes > scheduledStart.totalMinutes

-----------------------------------------------------------------------------
(* Options.                                                                *)

\* JavaScript's x || d on numbers: 0 is falsy.
OrElse(x, d) == IF x = 0 THEN d ELSE x

\* { ...a, ...b }: the fields of b laid over those of a.
Spread(a, b) ==
    [k \in DOMAIN a \cup DOMAIN b |-> IF k \in DOMAIN b THEN b[k] ELSE a[k]]

defaultOptions ==
    [duration |-> DefaultDuration,
     bufferTime |-> DefaultBufferTime,
     businessHours |-> [start |-> <<9, 0>>, end |-> <<17, 0>>],
     preferredDays |-> <<1, 2, 3, 4, 5>>,
     maxSuggestions |-> DefaultMaxSuggestions]

\* Not the code: the caller's options spread last, over the request's duration.
mergeOptions_optionsLast(req, options_) ==
    Spread(Spread(defaultOptions,
                  [duration |-> OrElse(req.interview_duration,
                                       defaultOptions.duration)]),
           options_)

\* { ...defaultOptions, ...options, duration: request.interview_duration || 60 }
\* A field the caller did not supply is absent from the options record.
mergeOptions(req, options_) ==
    Spread(Spread(defaultOptions, options_),
           [duration |-> OrElse(req.interview_duration, defaultOptions.duration)])

\* options.bufferTime || 15, the buffer both passes hand to their conflict test
conflictBuffer(opts) == OrElse(opts.bufferTime, FallbackBufferTime)

-----------------------------------------------------------------------------
(* findIndividualInterviews.                                               *)

\* Not the code: the list is a field of the service, kept from call to call.
newUsedCandidateTimeSlots_kept(previous) == previous

\* const usedCandidateTimeSlots = []: every call builds its own list, whatever
\* an earlier call left behind.
newUsedCandidateTimeSlots(previous) == <<>>

\* const allInterviews = []
newAllInterviews(previous) == <<>>

\* Not the code: one entry per availability record, ids repeated.
interviewerIds_perRecord(interviewerAvailability) ==
    [i \in 1..Len(interviewerAvailability) |->
        interviewerAvailability[i].user_id]

\* Array.from(interviewerMap.keys()): user ids in order of first appearance
interviewerIds(interviewerAvailability) ==
    LET first == SelectSeq([i \in 1..Len(interviewerAvailability) |-> i],
                   LAMBDA i: \A j \in 1..(i - 1) :
                       interviewerAvailability[j].user_id
                           # interviewerAvailability[i].user_id)
    IN  MapSeq(first, LAMBDA i: interviewerAvailability[i].user_id)

\* interviewerMap.get(interviewerId)
interviewerMapGet(interviewerAvailability, interviewerId) ==
    SelectSeq(interviewerAvailability, LAMBDA a: a.user_id = interviewerId)

\* ids.filter(id => !scheduledInterviewerIds.has(id))
unscheduledInterviewerIds(ids, interviews) ==
    SelectSeq(ids, LAMBDA id:
        \A i \in 1..Len(interviews) : interviews[i].interviewer_id # id)

proposedSlotOf(slot) ==
    [date |-> slot.date, start |-> slot.startTime, end |-> slot.endTime]

\* users?.find(user => user.id === interviewerId): `${name} (${email})` of the
\* first such user; `Interviewer ${interviewerId.substring(0, 8)}` when the
\* request carries no users or none of that id.
interviewerNameOf(interviewerId) ==
    IF /\ "users" \in DOMAIN request
       /\ \E i \in 1..Len(request.users) : request.users[i].id = interviewerId
    THEN LET interviewer ==
                 SelectSeq(request.users,
                           LAMBDA user: user.id = interviewerId)[1]
         IN  <<interviewer.name, interviewer.email>>
    ELSE <<"Interviewer", interviewerId>>

assignedInterview(slot, interviewerId) ==
    [date |-> slot.date, startTime |-> slot.startTime, endTime |-> slot.endTime,
     duration |-> slot.duration, score |-> slot.score, reasons |-> slot.reasons,
     interviewer_id |-> interviewerId,
     interviewer_name |-> interviewerNameOf(interviewerId)]

\* The score selectBestTimeSlot gives a slot that starts at timeStr.
slotScore(timeStr) ==
    LET time == parseTime(timeStr)
    IN  BaseScore
        + (IF time.minutes = 0 THEN 20
           ELSE IF time.minutes = 30 THEN 15
           ELSE IF time.minutes % 15 = 0 THEN 10
           ELSE IF time.minutes % 5 = 0 THEN 5
           ELSE 0)
        + (IF time.hours >= 9 /\ time.hours <= 17 THEN 10 ELSE 0)

\* Not the code: the scan taking the best-scored conflict-free slot.
bestScoredFit(overlappingSlots, free) ==
    IF free = {} THEN 0
    ELSE CHOOSE i \in free : \A j \in free :
            \/ slotScore(overlappingSlots[i].startTime)
                   > slotScore(overlappingSlots[j].startTime)
            \/ /\ slotScore(overlappingSlots[i].startTime)
                      = slotScore(overlappingSlots[j].startTime)
               /\ i <= j

\* The index of the slot the scan `for (const slot of overlappingSlots)` stops
\* at: the first one whose conflict test is negative; 0 when the scan runs out.
firstFit(overlappingSlots, free) ==
    IF free = {} THEN 0 ELSE CHOOSE i \in free : \A j \in free : i <= j

\* Not the code: the list kept in order of start time.
RECURSIVE pushInterview_byTime(_, _)
pushInterview_byTime(interviews, interview) ==
    IF interviews = <<>> THEN <<interview>>
    ELSE IF parseTime(interview.startTime).totalMinutes
                < parseTime(Head(interviews).startTime).totalMinutes
         THEN <<interview>> \o interviews
         ELSE <<Head(interviews)>>
                  \o pushInterview_byTime(Tail(interviews), interview)

\* allInterviews.push({ ...slot, interviewer_id, interviewer_name })
pushInterview(interviews, interview) == Append(interviews, interview)

-----------------------------------------------------------------------------
(* Response builder.                                                       *)

\* Offset from UTC, in minutes, of the time zones of the model.  A zone name
\* the conversion library does not know makes zonedTimeToUtc(...).toISOString()
\* raise a RangeError.
KnownZones == {"Asia/Shanghai"}
Zones == KnownZones \cup {"Not/AZone"}
utcOffset(timezone) == IF timezone = "Asia/Shanghai" THEN 480 ELSE 0

\* A completion of a call: a returned value or a raised error.
Return(v) == [kind |-> "return", value |-> v]
Throw(e) == [kind |-> "throw", error |-> e]

\* createScheduledTime: the instant, in minutes, of date + startTime in the zone
createScheduledTime(slot, timezone) ==
    IF timezone \in KnownZones
    THEN Return(slot.date * MinutesPerDay
                + parseTime(slot.startTime).totalMinutes - utcOffset(timezone))
    ELSE Throw("RangeError")

formatScheduleMessage(slot, timezone) ==
    <<"Interview scheduled for", slot.date, slot.startTime, slot.endTime, timezone>>

formatMultipleInterviewsMessage(interviews, timezone, bufferTime) ==
    IF Len(interviews) = 0 THEN <<"No interviews scheduled">>
    ELSE IF Len(interviews) = 1
         THEN formatScheduleMessage(interviews[1], timezone)
         ELSE <<Len(interviews), "individual interviews scheduled for",
                interviews[1].date, "with", bufferTime,
                "-minute breaks between sessions">>

NoOverlapMessage ==
    "No overlapping time slots found between candidate and any interviewer."
FailedMessage ==
    "Failed to generate schedule. Please try again or contact support."

\* Not the code: slice(1, maxSuggestions + 1), one suggestion too many.
sliceFrom1_oneMore(seq, end) ==
    LET stop == Min(end + 1, Len(seq))
    IN  IF stop <= 1 THEN <<>> ELSE SubSeq(seq, 2, stop)

\* individualInterviews.slice(1, maxSuggestions)
sliceFrom1(seq, end) ==
    LET stop == IF end < 0 THEN Max(Len(seq) + end, 0) ELSE Min(end, Len(seq))
    IN  IF stop <= 1 THEN <<>> ELSE SubSeq(seq, 2, stop)

\* The dates of the slots of an availability list, each once, in the order a
\* Map or Set first receives them.
allSlotsOf(availability) ==
    ConcatAll(MapSeq(availability, LAMBDA a: a.time_slots))

datesOf(availability) ==
    LET slots == allSlotsOf(availability)
        first == SelectSeq([i \in 1..Len(slots) |-> i],
                     LAMBDA i: \A j \in 1..(i - 1) : slots[j].date # slots[i].date)
    IN  MapSeq(first, LAMBDA i: slots[i].date)

\* Array.from(candidateDates).filter(date => interviewerDates.has(date))
findOverlappingDays(candidateAvailability, interviewerAvailability) ==
    SelectSeq(datesOf(candidateAvailability),
              LAMBDA date: \E i \in 1..Len(allSlotsOf(interviewerAvailability)) :
                              allSlotsOf(interviewerAvailability)[i].date = date)

\* One side of the summary: the slots grouped by date.
availabilityByDate(availability) ==
    MapSeq(datesOf(availability), LAMBDA date:
        [date |-> date,
         slots |-> MapSeq(SelectSeq(allSlotsOf(availability),
                                    LAMBDA slot: slot.date = date),
                     LAMBDA slot:
                         [start |-> slot.start, end |-> slot.end,
                          duration_minutes |->
                              timeDifference(parseTime(slot.start),
                                             parseTime(slot.end))])])

generateAvailabilitySummary(req) ==
    [candidate |->
        [total_days |-> Len(datesOf(req.candidate_availability)),
         total_slots |-> Len(allSlotsOf(req.candidate_availability)),
         availability_by_date |-> availabilityByDate(req.candidate_availability)],
     interviewers |->
        [total_interviewers |-> Len(req.interviewer_availability),
         total_days |-> Len(datesOf(req.interviewer_availability)),
         total_slots |-> Len(allSlotsOf(req.interviewer_availability)),
         availability_by_date |->
             availabilityByDate(req.interviewer_availability)],
     overlapping_days |-> findOverlappingDays(req.candidate_availability,
                                              req.interviewer_availability)]

\* Not the code: the failure response carrying a scheduled_time of its own.
noOverlapResponse_timed ==
    [success |-> FALSE, message |-> NoOverlapMessage, scheduled_time |-> 0]

\* if (individualInterviews.length === 0) return { success: false, message }
noOverlapResponse == [success |-> FALSE, message |-> NoOverlapMessage]

\* Not the code: the primary interview taken from the end of the list.
primaryInterview_last(interviews) == interviews[Len(interviews)]

\* const primaryInterview = individualInterviews[0]
primaryInterview(interviews) == interviews[1]

\* The body of the try block once findIndividualInterviews has returned.
tryBody(req, opts, interviews) ==
    IF Len(interviews) = 0
    THEN Return(noOverlapResponse)
    ELSE IF createScheduledTime(primaryInterview(interviews),
                                req.timezone).kind = "throw"
    THEN createScheduledTime(primaryInterview(interviews), req.timezone)
    ELSE Return(
      [success |-> TRUE,
       scheduled_time |->
           createScheduledTime(primaryInterview(interviews), req.timezone).value,
       message |-> formatMultipleInterviewsMessage(interviews, req.timezone,
                                                    conflictBuffer(opts)),
       suggested_times |->
           MapSeq(sliceFrom1(interviews, opts.maxSuggestions),
                  LAMBDA slot: createScheduledTime(slot, req.timezone).value),
       all_available_slots |->
           MapSeq(interviews, LAMBDA slot:
               [date |-> slot.date, start_time |-> slot.startTime,
                end_time |-> slot.endTime, score |-> slot.score,
                reasons |-> slot.reasons,
                scheduled_time |-> createScheduledTime(slot, req.timezone).value,
                interviewer_id |-> slot.interviewer_id,
                interviewer_name |-> slot.interviewer_name]),
       availability_summary |-> generateAvailabilitySummary(req),
       individual_interviews |->
           MapSeq(interviews, LAMBDA interview:
               [interviewer_id |-> interview.interviewer_id,
                interviewer_name |-> interview.interviewer_name,
                date |-> interview.date, start_time |-> interview.startTime,
                end_time |-> interview.endTime, score |-> interview.score,
                reasons |-> interview.reasons,
                scheduled_time |->
                    createScheduledTime(interview, req.timezone).value])])

\* Not the code: no catch clause, the error reaches the caller.
catchHandler_rethrow(completion) == completion

\* catch (error) { ...; return { success: false, message, suggested_times: [] } }
catchHandler(completion) ==
    IF completion.kind = "throw"
    THEN Return([success |-> FALSE, message |-> FailedMessage,
                 suggested_times |-> <<>>])
    ELSE completion

-----------------------------------------------------------------------------
(* The inputs of the model.                                                *)

\* Two calendar dates.
Dates == {1, 2}
UserIds == 1..NumInterviewers

\* 09:00-10:00, 09:30-10:30, 09:00-11:00, 11:00-12:00
WindowA == <<<<9, 0>>, <<10, 0>>>>
WindowB == <<<<9, 30>>, <<10, 30>>>>
WindowC == <<<<9, 0>>, <<11, 0>>>>
WindowE == <<<<11, 0>>, <<12, 0>>>>

TimeSlotOf(d, w) == [date |-> d, start |-> w[1], end |-> w[2]]

\* The windows the candidate offers: all four on the first date, the two-hour
\* one on the second.
CandidateSlots ==
    { TimeSlotOf(1, w) : w \in {WindowA, WindowB, WindowC, WindowE} }
        \cup { TimeSlotOf(2, WindowC) }

\* The windows an interviewer offers.
InterviewerSlots ==
    { TimeSlotOf(1, w) : w \in {WindowA, WindowC} }
        \cup { TimeSlotOf(2, WindowC) }

\* interview_duration: 0 stands for a request that leaves it unset or zero.
Durations == {0, 30}

\* options: the empty record when the caller supplies none; otherwise one
\* field of SchedulingOptions.
OptionInputs ==
    { <<>> } \cup { [bufferTime |-> b] : b \in {0, 15} }
             \cup { [maxSuggestions |-> m] : m \in {1, 2} }
             \cup { [duration |-> 45] }

SeqsUpTo(S, n) == UNION { [1..k -> S] : k \in 1..n }

\* The candidate submits one availability record of one or two slots.
CandidateInputs ==
    { <<[user_id |-> 0, time_slots |-> slots]>> :
          slots \in SeqsUpTo(CandidateSlots, 2) }

InterviewerRecords ==
    { [user_id |-> u, time_slots |-> <<slot>>] :
          u \in UserIds, slot \in InterviewerSlots }

\* User ids are opaque: the records are taken up to renaming of the ids, the
\* ids numbered in order of first appearance.
InterviewerInputs ==
    { recs \in SeqsUpTo(InterviewerRecords, MaxRecords) :
        \A i \in 1..Len(recs) :
            \/ recs[i].user_id = 1
            \/ \E j \in 1..(i - 1) : recs[j].user_id + 1 >= recs[i].user_id }

NoCall == [called |-> FALSE, fn |-> "none"]

-----------------------------------------------------------------------------
(* The Database (src/src/server/database/database.ts).  A table is the     *)
(* list of its rows in rowid order.                                        *)

\* A nullable column: NULL, or a value.
SqlNull == [null |-> TRUE, value |-> 0]
SqlValue(v) == [null |-> FALSE, value |-> v]

\* JSON.stringify on an array of { date, start, end } objects: the text is
\* modelled as the list, object by object, of the members in order of
\* insertion, each a <<key, value>> pair.
JSONstringify(timeSlots) ==
    MapSeq(timeSlots, LAMBDA slot:
        << <<"date", slot.date>>, <<"start", slot.start>>, <<"end", slot.end>> >>)

\* JSON.parse on such a text: objects with the members the text names.
JSONparse(text) ==
    MapSeq(text, LAMBDA members:
        [date |-> members[1][2], start |-> members[2][2], end |-> members[3][2]])

\* Two schedulers created by createScheduler and the users registered with
\* them; nobody has submitted availability yet.  The same e-mail address is
\* registered with both schedulers.
RegisteredDatabase ==
    [schedulers |->
        << [id |-> "S1", status |-> "waiting_for_availability",
            scheduled_time |-> SqlNull, timezone |-> "Asia/Shanghai",
            interview_duration |-> 30, updated_at |-> 0],
           [id |-> "S2", status |-> "waiting_for_availability",
            scheduled_time |-> SqlNull, timezone |-> "Asia/Shanghai",
            interview_duration |-> 60, updated_at |-> 0] >>,
     users |->
        << [id |-> 0, scheduler_id |-> "S1", name |-> "Candidate",
            email |-> "candidate@example.com", role |-> "candidate"],
           [id |-> 1, scheduler_id |-> "S1", name |-> "First",
            email |-> "first@example.com", role |-> "interviewer"],
           [id |-> 2, scheduler_id |-> "S1", name |-> "Second",
            email |-> "second@example.com", role |-> "interviewer"],
           [id |-> 3, scheduler_id |-> "S2", name |-> "Candidate",
            email |-> "candidate@example.com", role |-> "candidate"] >>,
     availability |-> <<>>]

\* getRow(...): the rows the query selects; the method returns null when
\* there is none and the first one otherwise.
getSchedulerById(database, id) ==
    MapSeq(SelectSeq(database.schedulers, LAMBDA row: row.id = id),
           LAMBDA row: [row EXCEPT !.interview_duration =
                                      OrElse(row.interview_duration,
                                             DefaultDuration)])

getUserByEmailAndScheduler(database, email, schedulerId) ==
    SelectSeq(database.users,
              LAMBDA row: row.email = email /\ row.scheduler_id = schedulerId)

getUsersBySchedulerId(database, schedulerId) ==
    SelectSeq(database.users, LAMBDA row: row.scheduler_id = schedulerId)

getAvailabilityBySchedulerId(database, schedulerId) ==
    MapSeq(SelectSeq(database.availability,
                     LAMBDA row: row.scheduler_id = schedulerId),
           LAMBDA row: [row EXCEPT !.time_slots = JSONparse(row.time_slots)])

\* Not the code: no DELETE before the INSERT.
deleteAvailability_none(rows, user_id, scheduler_id) == rows

\* DELETE FROM availability WHERE user_id = ? AND scheduler_id = ?
deleteAvailability(rows, user_id, scheduler_id) ==
    SelectSeq(rows, LAMBDA row:
        ~(row.user_id = user_id /\ row.scheduler_id = scheduler_id))

\* INSERT INTO availability (...) VALUES (...)
insertAvailability(rows, availability, timestamp) ==
    Append(rows,
           [id |-> availability.id,
            user_id |-> availability.user_id,
            scheduler_id |-> availability.scheduler_id,
            time_slots |-> JSONstringify(availability.time_slots),
            timezone |-> availability.timezone,
            created_at |-> timestamp,
            updated_at |-> timestamp])

\* Database.saveAvailability: the database after the call.
saveAvailability(database, availability, timestamp) ==
    [database EXCEPT !.availability =
        insertAvailability(
            deleteAvailability(database.availability, availability.user_id,
                               availability.scheduler_id),
            availability, timestamp)]

\* Not the code: the status written, the scheduled time left as it was.
updateSchedulerStatus_statusOnly(database, id, status, scheduled_time, timestamp) ==
    [database EXCEPT !.schedulers =
        MapSeq(database.schedulers, LAMBDA row:
            IF row.id = id
            THEN [row EXCEPT !.status = status, !.updated_at = timestamp]
            ELSE row)]

\* UPDATE schedulers SET status = ?, scheduled_time = ?, updated_at = ?
\* WHERE id = ?
updateSchedulerStatus(database, id, status, scheduled_time, timestamp) ==
    [database EXCEPT !.schedulers =
        MapSeq(database.schedulers, LAMBDA row:
            IF row.id = id
            THEN [row EXCEPT !.status = status,
                             !.scheduled_time = SqlValue(scheduled_time),
                             !.updated_at = timestamp]
            ELSE row)]

-----------------------------------------------------------------------------
(* findOptimalSchedule as a state machine.                                 *)

opts == mergeOptions(request, options)
ids == interviewerIds(request.interviewer_availability)
unscheduled == unscheduledInterviewerIds(ids, SubSeq(allInterviews, 1, pass1Count))

\* The requests whose timezone is one of zones.
Requests(zones) ==
    [candidate_availability : CandidateInputs,
     interviewer_availability : InterviewerInputs,
     interview_duration : Durations,
     timezone : zones]

\* A call in a zone the conversion knows comes with any of the options, a call
\* in an unknown zone with none.
Init ==
    /\ \E input \in (Requests(KnownZones) \X OptionInputs)
                         \cup (Requests(Zones \ KnownZones) \X { <<>> }) :
           request = input[1] /\ options = input[2]
    /\ pc = "pass1"
    /\ idx = 1
    /\ allInterviews = <<>>
    /\ usedCandidateTimeSlots = <<>>
    /\ pass1Count = 0
    /\ response = [kind |-> "pending"]
    /\ ov = NoCall
    /\ runs = <<>>
    /\ db = RegisteredDatabase
    /\ now = 0
    /\ call = NoCall

\* One iteration of the first loop over interviewerIds.
Pass1Step ==
    /\ pc = "pass1"
    /\ idx <= Len(ids)
    /\ \E overlappingSlots \in
            { findOverlappingSlots(request.candidate_availability,
                  interviewerMapGet(request.interviewer_availability, ids[idx]),
                  opts) } :
       \E free \in
            { { i \in 1..Len(overlappingSlots) :
                  ~hasCandidateTimeConflict(proposedSlotOf(overlappingSlots[i]),
                       usedCandidateTimeSlots, conflictBuffer(opts)) } } :
       \E k \in { firstFit(overlappingSlots, free) } :
           IF k = 0
           THEN UNCHANGED <<allInterviews, usedCandidateTimeSlots>>
           ELSE /\ usedCandidateTimeSlots' =
                     Append(usedCandidateTimeSlots,
                            proposedSlotOf(overlappingSlots[k]))
                /\ allInterviews' =
                     pushInterview(allInterviews,
                            assignedInterview(overlappingSlots[k], ids[idx]))
    /\ idx' = idx + 1
    /\ UNCHANGED <<request, options, pc, pass1Count, response, ov, runs, call,
                   db, now>>

\* The first loop is over: the unscheduled interviewers are computed.
Pass1Done ==
    /\ pc = "pass1"
    /\ idx > Len(ids)
    /\ pass1Count' = Len(allInterviews)
    /\ pc' = "pass2"
    /\ idx' = 1
    /\ UNCHANGED <<request, options, allInterviews, usedCandidateTimeSlots,
                   response, ov, runs, call, db, now>>

\* One iteration of the second loop, over unscheduledInterviewerIds.
Pass2Step ==
    /\ pc = "pass2"
    /\ idx <= Len(unscheduled)
    /\ \E overlappingSlots \in
            { findOverlappingSlots(request.candidate_availability,
                  interviewerMapGet(request.interviewer_availability,
                                    unscheduled[idx]),
                  opts) } :
       \E free \in
            { { i \in 1..Len(overlappingSlots) :
                  ~conflictsWithScheduled(proposedSlotOf(overlappingSlots[i]),
                       allInterviews, conflictBuffer(opts)) } } :
       \E k \in { firstFit(overlappingSlots, free) } :
           IF k = 0
           THEN UNCHANGED <<allInterviews, usedCandidateTimeSlots>>
           ELSE /\ usedCandidateTimeSlots' =
                     Append(usedCandidateTimeSlots,
                            proposedSlotOf(overlappingSlots[k]))
                /\ allInterviews' =
                     pushInterview(allInterviews,
                            assignedInterview(overlappingSlots[k], unscheduled[idx]))
    /\ idx' = idx + 1
    /\ UNCHANGED <<request, options, pc, pass1Count, response, ov, runs, call,
                   db, now>>

\* findIndividualInterviews returns; the rest of the try block and the catch
\* clause produce what the caller receives.
Respond ==
    /\ pc = "pass2"
    /\ idx > Len(unscheduled)
    /\ response' = catchHandler(tryBody(request, opts, allInterviews))
    /\ pc' = "done"
    /\ UNCHANGED <<request, options, idx, allInterviews, usedCandidateTimeSlots,
                   pass1Count, ov, runs, call, db, now>>

Next == Pass1Step \/ Pass1Done \/ Pass2Step \/ Respond

Spec == Init /\ [][Next]_vars

-----------------------------------------------------------------------------
(* Several calls of findOptimalSchedule on one SchedulerService, one after *)
(* the other; runs records what each finished call was given and returned. *)

MaxRuns == 3

RunCandidates ==
    { <<[user_id |-> 0, time_slots |-> <<TimeSlotOf(1, w)>>]>> :
          w \in {WindowA, WindowC} }

RunInterviewers ==
    { <<[user_id |-> 1, time_slots |-> <<TimeSlotOf(1, WindowC)>>]>>,
      <<[user_id |-> 1, time_slots |-> <<TimeSlotOf(1, WindowA)>>],
        [user_id |-> 2, time_slots |-> <<TimeSlotOf(1, WindowA)>>]>>,
      <<[user_id |-> 1, time_slots |-> <<TimeSlotOf(2, WindowC)>>]>> }

\* The <<request, options>> pairs of the calls.
RunInputs ==
    ([candidate_availability : RunCandidates,
      interviewer_availability : RunInterviewers,
      interview_duration : {30},
      timezone : KnownZones] \X { <<>> })
    \cup
    ([candidate_availability : RunCandidates,
      interviewer_availability :
          { <<[user_id |-> 1, time_slots |-> <<TimeSlotOf(1, WindowC)>>]>> },
      interview_duration : {30},
      timezone : Zones \ KnownZones] \X { <<>> })

InitRuns ==
    /\ \E input \in RunInputs : request = input[1] /\ options = input[2]
    /\ pc = "pass1"
    /\ idx = 1
    /\ allInterviews = <<>>
    /\ usedCandidateTimeSlots = <<>>
    /\ pass1Count = 0
    /\ response = [kind |-> "pending"]
    /\ ov = NoCall
    /\ runs = <<>>
    /\ db = RegisteredDatabase
    /\ now = 0
    /\ call = NoCall

\* The call has returned and the next one begins.
StartRun ==
    /\ pc = "done"
    /\ Len(runs) + 1 < MaxRuns
    /\ runs' = Append(runs, [request |-> request, options |-> options,
                             response |-> response])
    /\ \E input \in RunInputs : request' = input[1] /\ options' = input[2]
    /\ pc' = "pass1"
    /\ idx' = 1
    /\ allInterviews' = newAllInterviews(allInterviews)
    /\ usedCandidateTimeSlots' = newUsedCandidateTimeSlots(usedCandidateTimeSlots)
    /\ pass1Count' = 0
    /\ response' = [kind |-> "pending"]
    /\ UNCHANGED <<ov, call, db, now>>

NextRuns == Pass1Step \/ Pass1Done \/ Pass2Step \/ Respond \/ StartRun

SpecRuns == InitRuns /\ [][NextRuns]_vars

-----------------------------------------------------------------------------
(* findTimeSlotOverlap on its own: one call on two windows of one date.    *)

OverlapTimes ==
    { <<8, 0>>, <<9, 0>>, <<9, 7>>, <<9, 30>>, <<10, 0>>, <<10, 30>>,
      <<11, 0>>, <<23, 0>>, <<23, 59>> }

\* Windows with start < end.
OverlapWindows ==
    { w \in OverlapTimes \X OverlapTimes :
          parseTime(w[1]).totalMinutes < parseTime(w[2]).totalMinutes }

OverlapDurations == {15, 30, 45, 60, 90}

InitOverlap ==
    /\ request = <<>>
    /\ options = <<>>
    /\ pc = "idle"
    /\ idx = 0
    /\ allInterviews = <<>>
    /\ usedCandidateTimeSlots = <<>>
    /\ pass1Count = 0
    /\ response = [kind |-> "pending"]
    /\ runs = <<>>
    /\ db = RegisteredDatabase
    /\ now = 0
    /\ call = NoCall
    /\ \E w1 \in OverlapWindows, w2 \in OverlapWindows, d \in OverlapDurations :
           ov = [called |-> FALSE, slot1 |-> TimeSlotOf(1, w1),
                 slot2 |-> TimeSlotOf(1, w2), requiredDuration |-> d,
                 result |-> <<>>]

CallOverlap ==
    /\ ~ov.called
    /\ ov' = [ov EXCEPT !.called = TRUE,
                        !.result = findTimeSlotOverlap(ov.slot1, ov.slot2,
                                                       ov.requiredDuration)]
    /\ UNCHANGED <<request, options, pc, idx, allInterviews,
                   usedCandidateTimeSlots, pass1Count, response, runs, call,
                   db, now>>

NextOverlap == CallOverlap

SpecOverlap == InitOverlap /\ [][NextOverlap]_vars

-----------------------------------------------------------------------------
(* validateAvailability.  The validator is handed text that may be         *)
(* malformed, so here a string is the sequence of its characters.          *)

Digits == <<"0", "1", "2", "3", "4", "5", "6", "7", "8", "9">>

isDigit(c) == \E n \in 1..Len(Digits) : Digits[n] = c

digitValue(c) == (CHOOSE n \in 1..Len(Digits) : Digits[n] = c) - 1

\* A JavaScript number: a value, or NaN.
NaN == [nan |-> TRUE, n |-> 0]
Num(n) == [nan |-> FALSE, n |-> n]

RECURSIVE decimalValue(_)
decimalValue(text) ==
    IF text = <<>> THEN 0
    ELSE decimalValue(SubSeq(text, 1, Len(text) - 1)) * 10
             + digitValue(text[Len(text)])

\* Number(text) for a text without blanks, sign, point or exponent: the value
\* of a run of digits, 0 for the empty text, NaN for anything else.
Number(text) ==
    IF \A i \in 1..Len(text) : isDigit(text[i])
    THEN Num(decimalValue(text)) ELSE NaN

\* text.split(':')
RECURSIVE split(_, _)
split(text, separator) ==
    IF \A i \in 1..Len(text) : text[i] # separator THEN <<text>>
    ELSE LET at == CHOOSE i \in 1..Len(text) :
                       /\ text[i] = separator
                       /\ \A j \in 1..(i - 1) : text[j] # separator
         IN  <<SubSeq(text, 1, at - 1)>>
                 \o split(SubSeq(text, at + 1, Len(text)), separator)

\* parseTime on text: const [hours, minutes] = timeStr.split(':').map(Number).
\* A missing second part leaves minutes undefined, and the sum is NaN.
parseTimeText(timeStr) ==
    LET parts == MapSeq(split(timeStr, ":"), Number)
        hours == parts[1]
        minutes == IF Len(parts) >= 2 THEN parts[2] ELSE NaN
    IN  [hours |-> hours,
         minutes |-> minutes,
         totalMinutes |-> IF hours.nan \/ minutes.nan THEN NaN
                          ELSE Num(hours.n * 60 + minutes.n)]

\* a >= b on JavaScript numbers: false as soon as one side is NaN
greaterOrEqual(a, b) == ~a.nan /\ ~b.nan /\ a.n >= b.n

\* /^\d{4}-\d{2}-\d{2}$/.test(date)
isValidDateFormat(date) ==
    /\ Len(date) = 10
    /\ \A i \in {1, 2, 3, 4, 6, 7, 9, 10} : isDigit(date[i])
    /\ date[5] = "-"
    /\ date[8] = "-"

\* /^([01]?[0-9]|2[0-3]):[0-5][0-9]$/.test(timeStr)
isValidTimeFormat(timeStr) ==
    \E h \in {1, 2} :
        /\ Len(timeStr) = h + 3
        /\ \/ h = 1 /\ isDigit(timeStr[1])
           \/ h = 2 /\ timeStr[1] \in {"0", "1"} /\ isDigit(timeStr[2])
           \/ h = 2 /\ timeStr[1] = "2" /\ timeStr[2] \in {"0", "1", "2", "3"}
        /\ timeStr[h + 1] = ":"
        /\ timeStr[h + 2] \in {"0", "1", "2", "3", "4", "5"}
        /\ isDigit(timeStr[h + 3])

\* Not the code: the range test on the minute of the day.
rangeViolated_byMinutes(start, end) ==
    greaterOrEqual(parseTimeText(start).totalMinutes,
                   parseTimeText(end).totalMinutes)

\* this.parseTime(slot.start).hours >= this.parseTime(slot.end).hours
rangeViolated(start, end) ==
    greaterOrEqual(parseTimeText(start).hours, parseTimeText(end).hours)

\* The error texts, by their fixed part and the values spliced into them.
NoAvailabilityError == [message |-> "No availability provided"]
noTimeSlotsError(index) ==
    [message |-> "No time slots provided for availability at index",
     index |-> index]
dateFormatError(index, slotIndex, slot) ==
    [message |-> "Invalid date format", index |-> index,
     slotIndex |-> slotIndex, date |-> slot.date]
timeFormatError(index, slotIndex, slot) ==
    [message |-> "Invalid time format", index |-> index,
     slotIndex |-> slotIndex, start |-> slot.start, end |-> slot.end]
timeRangeError(index, slotIndex) ==
    [message |-> "Invalid time range: start time must be before end time",
     index |-> index, slotIndex |-> slotIndex]

\* Not the code: the checks of a slot chained with else, the first failure only.
validateSlot_failFast(slot, index, slotIndex) ==
    IF ~isValidDateFormat(slot.date)
    THEN <<dateFormatError(index, slotIndex, slot)>>
    ELSE IF ~isValidTimeFormat(slot.start) \/ ~isValidTimeFormat(slot.end)
    THEN <<timeFormatError(index, slotIndex, slot)>>
    ELSE IF rangeViolated(slot.start, slot.end)
    THEN <<timeRangeError(index, slotIndex)>>
    ELSE <<>>

\* The body of avail.time_slots.forEach: three separate if statements.
validateSlot(slot, index, slotIndex) ==
    (IF ~isValidDateFormat(slot.date)
     THEN <<dateFormatError(index, slotIndex, slot)>> ELSE <<>>)
    \o (IF ~isValidTimeFormat(slot.start) \/ ~isValidTimeFormat(slot.end)
        THEN <<timeFormatError(index, slotIndex, slot)>> ELSE <<>>)
    \o (IF rangeViolated(slot.start, slot.end)
        THEN <<timeRangeError(index, slotIndex)>> ELSE <<>>)

\* The body of availability.forEach; index and slotIndex count from 0.
validateRecord(avail, index) ==
    IF Len(avail.time_slots) = 0 THEN <<noTimeSlotsError(index)>>
    ELSE ConcatAll([j \in 1..Len(avail.time_slots) |->
                       validateSlot(avail.time_slots[j], index, j - 1)])

\* An argument: a value, or left out by the caller (undefined).
Given(v) == [given |-> TRUE, value |-> v]
NotGiven == [given |-> FALSE, value |-> <<>>]

\* Not the code: no early return for the empty list.
validateAvailability_noEmptyCheck(availability) ==
    LET errors == ConcatAll([i \in 1..Len(availability.value) |->
                                validateRecord(availability.value[i], i - 1)])
    IN  [valid |-> Len(errors) = 0, errors |-> errors]

validateAvailability(availability) ==
    IF ~availability.given \/ Len(availability.value) = 0
    THEN [valid |-> FALSE, errors |-> <<NoAvailabilityError>>]
    ELSE LET errors == ConcatAll([i \in 1..Len(availability.value) |->
                                     validateRecord(availability.value[i], i - 1)])
         IN  [valid |-> Len(errors) = 0, errors |-> errors]

\* The texts of the model.
Date_2024_01_01 == <<"2", "0", "2", "4", "-", "0", "1", "-", "0", "1">>
Date_2024_1_1 == <<"2", "0", "2", "4", "-", "1", "-", "1">>
Time_09_00 == <<"0", "9", ":", "0", "0">>
Time_09_15 == <<"0", "9", ":", "1", "5">>
Time_09_45 == <<"0", "9", ":", "4", "5">>
Time_10_00 == <<"1", "0", ":", "0", "0">>
Time_09_75 == <<"0", "9", ":", "7", "5">>
Time_9am == <<"9", "a", "m">>
Time_24_00 == <<"2", "4", ":", "0", "0">>
Time_25_00 == <<"2", "5", ":", "0", "0">>

TextSlot(date, start, end) == [date |-> date, start |-> start, end |-> end]

\* The slot of the specification's example: a malformed date, a good range.
ExampleSlot == TextSlot(Date_2024_1_1, Time_09_00, Time_10_00)

ValidatedSlots ==
    { TextSlot(Date_2024_01_01, Time_09_00, Time_10_00),
      ExampleSlot,
      TextSlot(Date_2024_01_01, Time_09_15, Time_09_45),
      TextSlot(Date_2024_01_01, Time_10_00, Time_09_00),
      TextSlot(Date_2024_01_01, Time_09_75, Time_10_00),
      TextSlot(Date_2024_01_01, Time_9am, Time_10_00),
      TextSlot(Date_2024_1_1, Time_25_00, Time_24_00) }

\* Records of no, one or two slots; the two-slot ones from three of the slots.
ValidatedRecords ==
    { [user_id |-> 1, time_slots |-> slots] :
        slots \in { <<>> } \cup [1..1 -> ValidatedSlots]
                 \cup [1..2 -> { ExampleSlot,
                                TextSlot(Date_2024_01_01, Time_09_15, Time_09_45),
                                TextSlot(Date_2024_1_1, Time_25_00, Time_24_00) }] }

ValidatedInputs ==
    { NotGiven } \cup { Given(list) :
                           list \in { <<>> } \cup SeqsUpTo(ValidatedRecords,
                                                         MaxRecords) }

InitValidate ==
    /\ request = <<>>
    /\ options = <<>>
    /\ pc = "idle"
    /\ idx = 0
    /\ allInterviews = <<>>
    /\ usedCandidateTimeSlots = <<>>
    /\ pass1Count = 0
    /\ response = [kind |-> "pending"]
    /\ ov = NoCall
    /\ runs = <<>>
    /\ db = RegisteredDatabase
    /\ now = 0
    /\ \E availability \in ValidatedInputs :
           call = [fn |-> "validateAvailability", called |-> FALSE,
                   availability |-> availability,
                   result |-> [valid |-> FALSE, errors |-> <<>>]]

CallValidateAvailability ==
    /\ call.fn = "validateAvailability"
    /\ ~call.called
    /\ call' = [call EXCEPT !.called = TRUE,
                            !.result = validateAvailability(call.availability)]
    /\ UNCHANGED <<request, options, pc, idx, allInterviews,
                   usedCandidateTimeSlots, pass1Count, response, ov, runs,
                   db, now>>

NextValidate == CallValidateAvailability

SpecValidate == InitValidate /\ [][NextValidate]_vars

-----------------------------------------------------------------------------
(* getSchedulingStats.                                                     *)

\* The sum of a list of numbers, by halves.
RECURSIVE SumSeq(_)
SumSeq(seq) ==
    IF Len(seq) = 0 THEN 0
    ELSE IF Len(seq) = 1 THEN seq[1]
    ELSE SumSeq(SubSeq(seq, 1, Len(seq) \div 2))
             + SumSeq(SubSeq(seq, Len(seq) \div 2 + 1, Len(seq)))

\* availability.reduce((sum, avail) => sum + avail.time_slots.length, 0)
countSlots(availability) ==
    SumSeq(MapSeq(availability, LAMBDA avail: Len(avail.time_slots)))

\* The Set the two forEach loops add every slot's date to.
dateSet(availability) ==
    { allSlotsOf(availability)[i].date :
          i \in 1..Len(allSlotsOf(availability)) }

\* Every summed duration is defaultOptions.duration, 60, so the division by 60
\* is exact.
getSchedulingStats(candidateAvailability, interviewerAvailability) ==
    LET candidateDates == dateSet(candidateAvailability)
        interviewerDates == dateSet(interviewerAvailability)
        overlappingSlots == findOverlappingSlots(candidateAvailability,
                                interviewerAvailability, defaultOptions)
    IN  [totalCandidateSlots |-> countSlots(candidateAvailability),
         totalInterviewerSlots |-> countSlots(interviewerAvailability),
         overlappingDays |->
             Cardinality({ date \in candidateDates : date \in interviewerDates }),
         totalOverlappingHours |->
             SumSeq(MapSeq(overlappingSlots, LAMBDA slot: slot.duration)) \div 60]

InitStats ==
    /\ request = <<>>
    /\ options = <<>>
    /\ pc = "idle"
    /\ idx = 0
    /\ allInterviews = <<>>
    /\ usedCandidateTimeSlots = <<>>
    /\ pass1Count = 0
    /\ response = [kind |-> "pending"]
    /\ ov = NoCall
    /\ runs = <<>>
    /\ db = RegisteredDatabase
    /\ now = 0
    /\ \E candidate \in CandidateInputs, interviewers \in InterviewerInputs :
           call = [fn |-> "getSchedulingStats", called |-> FALSE,
                   candidateAvailability |-> candidate,
                   interviewerAvailability |-> interviewers,
                   result |-> <<>>]

CallGetSchedulingStats ==
    /\ call.fn = "getSchedulingStats"
    /\ ~call.called
    /\ call' = [call EXCEPT !.called = TRUE,
                            !.result =
                                getSchedulingStats(call.candidateAvailability,
                                                   call.interviewerAvailability)]
    /\ UNCHANGED <<request, options, pc, idx, allInterviews,
                   usedCandidateTimeSlots, pass1Count, response, ov, runs,
                   db, now>>

NextStats == CallGetSchedulingStats

SpecStats == InitStats /\ [][NextStats]_vars

-----------------------------------------------------------------------------
(* POST /api/availability/save (src/src/server/routes/availability.ts),    *)
(* request after request.  The bodies are well formed: the validators of   *)
(* the route let them through.                                             *)

MaxRequests == 3

\* a || b on strings: the empty string, like undefined, is falsy.
OrElseText(x, d) == IF x = "" THEN d ELSE x

\* The availability arrays of the bodies: per date, the windows of that date.
SubmissionOneDay ==
    << [date |-> 1, time_slots |-> << [start |-> <<9, 0>>, end |-> <<10, 0>>] >>] >>
SubmissionTwoDays ==
    << [date |-> 1, time_slots |-> << [start |-> <<9, 0>>, end |-> <<10, 0>>],
                                      [start |-> <<11, 0>>, end |-> <<12, 0>>] >>],
       [date |-> 2, time_slots |-> << [start |-> <<9, 0>>, end |-> <<11, 0>>] >>] >>
SubmissionEmpty == <<>>

\* The bodies: a scheduler id (one of them unknown), an e-mail address (not
\* registered with every scheduler), an availability array and a timezone
\* ("" when the body carries none).
SaveBodies ==
    { [scheduler_id |-> s, user_email |-> e, availability |-> a[1],
       timezone |-> a[2]] :
          s \in {"S1", "S2", "S9"},
          e \in {"candidate@example.com", "first@example.com"},
          a \in { <<SubmissionOneDay, "">>, <<SubmissionTwoDays, "">>,
                  <<SubmissionEmpty, "Europe/Paris">> } }

\* availability.forEach(avail => timeSlots.push(...avail.time_slots.map(...)))
normalizedTimeSlots(availability) ==
    ConcatAll(MapSeq(availability, LAMBDA avail:
        MapSeq(avail.time_slots, LAMBDA slot:
            [date |-> avail.date, start |-> slot.start, end |-> slot.end])))

\* The handler of the route: what it answers and the database it leaves.
\* uuidv4() returns a value no earlier call returned; the tick of the request
\* stands for it.
saveHandler(database, body, tick) ==
    LET scheduler == getSchedulerById(database, body.scheduler_id)
        user == getUserByEmailAndScheduler(database, body.user_email,
                                           body.scheduler_id)
        submitted == [id |-> tick,
                      user_id |-> user[1].id,
                      scheduler_id |-> scheduler[1].id,
                      time_slots |-> normalizedTimeSlots(body.availability),
                      timezone |-> OrElseText(body.timezone,
                                      OrElseText(scheduler[1].timezone, "UTC"))]
    IN  IF scheduler = <<>>
        THEN [status |-> 404, error |-> "Scheduler not found",
              database |-> database]
        ELSE IF user = <<>>
        THEN [status |-> 404, error |-> "User not found. Please register first.",
              database |-> database]
        ELSE [status |-> 200, availability |-> submitted,
              database |-> saveAvailability(database, submitted, tick)]

InitStore ==
    /\ request = <<>>
    /\ options = <<>>
    /\ pc = "idle"
    /\ idx = 0
    /\ allInterviews = <<>>
    /\ usedCandidateTimeSlots = <<>>
    /\ pass1Count = 0
    /\ response = [kind |-> "pending"]
    /\ ov = NoCall
    /\ runs = <<>>
    /\ call = [fn |-> "availability/save", called |-> FALSE]
    /\ db = RegisteredDatabase
    /\ now = 0

PostAvailabilitySave ==
    /\ call.fn = "availability/save"
    /\ now < MaxRequests
    /\ \E body \in SaveBodies :
       \E answer \in { saveHandler(db, body, now + 1) } :
           /\ db' = answer.database
           /\ call' = [fn |-> "availability/save", called |-> TRUE,
                       body |-> body, status |-> answer.status]
    /\ now' = now + 1
    /\ UNCHANGED <<request, options, pc, idx, allInterviews,
                   usedCandidateTimeSlots, pass1Count, response, ov, runs>>

NextStore == PostAvailabilitySave

SpecStore == InitStore /\ [][NextStore]_vars

-----------------------------------------------------------------------------
(* The two conflict tests side by side: one proposed slot tested against   *)
(* the interviews assigned so far, as the first pass tests it and as the   *)
(* second pass does.  Every push onto allInterviews comes with a push of   *)
(* the same slot onto usedCandidateTimeSlots, so the two lists hold the    *)
(* same slots in the same order.                                           *)

MaxAssigned == 2

ConflictStarts == { <<9, 0>>, <<9, 30>>, <<9, 45>>, <<23, 30>> }

\* Slots as findTimeSlotOverlap builds them: a start and the end that
\* addMinutesToTime gives for a duration of 30 or 60 minutes.
ConflictSlots ==
    { [date |-> d, start |-> t, end |-> addMinutesToTime(t, m)] :
          d \in Dates, t \in ConflictStarts, m \in {30, 60} }

\* The interview an assigned slot is pushed as.
interviewAt(slot, interviewerId) ==
    assignedInterview(
        timeSlotMatch(slot, slot,
            [duration |-> timeDifference(parseTime(slot.start),
                                         parseTime(slot.end))]),
        interviewerId)

\* Lists of interviews of interviewers 1, 2, ... in that order.
AssignedLists ==
    { <<>> } \cup
    { [i \in 1..Len(slots) |-> interviewAt(slots[i], i)] :
          slots \in SeqsUpTo(ConflictSlots, MaxAssigned) }

InitConflict ==
    /\ request = <<>>
    /\ options = <<>>
    /\ pc = "idle"
    /\ idx = 0
    /\ allInterviews = <<>>
    /\ usedCandidateTimeSlots = <<>>
    /\ pass1Count = 0
    /\ response = [kind |-> "pending"]
    /\ ov = NoCall
    /\ runs = <<>>
    /\ db = RegisteredDatabase
    /\ now = 0
    /\ \E proposed \in ConflictSlots, interviews \in AssignedLists,
          bufferTime \in {0, 15, 30} :
           call = [fn |-> "conflictTests", called |-> FALSE,
                   proposedSlot |-> proposed,
                   allInterviews |-> interviews,
                   usedCandidateTimeSlots |->
                       MapSeq(interviews, proposedSlotOf),
                   options |-> [bufferTime |-> bufferTime],
                   result |-> <<>>]

CallConflictTests ==
    /\ call.fn = "conflictTests"
    /\ ~call.called
    /\ call' = [call EXCEPT
           !.called = TRUE,
           !.result =
               [pass1 |-> hasCandidateTimeConflict(call.proposedSlot,
                              call.usedCandidateTimeSlots,
                              conflictBuffer(call.options)),
                pass2 |-> conflictsWithScheduled(call.proposedSlot,
                              call.allInterviews,
                              conflictBuffer(call.options))]]
    /\ UNCHANGED <<request, options, pc, idx, allInterviews,
                   usedCandidateTimeSlots, pass1Count, response, ov, runs,
                   db, now>>

NextConflict == CallConflictTests

SpecConflict == InitConflict /\ [][NextConflict]_vars

-----------------------------------------------------------------------------
(* POST /api/scheduler/:id/generate-schedule                               *)
(* (src/src/server/routes/scheduler.ts): the handler reads the database,   *)
(* runs findOptimalSchedule on what it read and writes the outcome back.   *)

\* The availability the users of scheduler S1 have saved: the slots of one
\* submission, or no slots for a user that has not submitted.
NoSubmission == <<>>

RouteCandidateSubmissions ==
    { NoSubmission } \cup { <<TimeSlotOf(1, w)>> : w \in {WindowA, WindowC, WindowE} }
RouteFirstSubmissions ==
    { <<TimeSlotOf(1, WindowA)>>, <<TimeSlotOf(1, WindowC)>>,
      <<TimeSlotOf(2, WindowC)>> }
RouteSecondSubmissions ==
    { NoSubmission, <<TimeSlotOf(1, WindowA)>>, <<TimeSlotOf(1, WindowC)>> }

\* The database after a user of S1 has saved a submission at a tick.
savedBy(database, user_id, submission, tick) ==
    IF submission = NoSubmission THEN database
    ELSE saveAvailability(database,
             [id |-> tick, user_id |-> user_id, scheduler_id |-> "S1",
              time_slots |-> submission, timezone |-> "Asia/Shanghai"],
             tick)

\* Scheduler S1 as createScheduler or an earlier generate-schedule left it.
withScheduler(database, timezone, duration, scheduled) ==
    [database EXCEPT !.schedulers[1] =
        [@ EXCEPT !.timezone = timezone,
                  !.interview_duration = duration,
                  !.status = IF scheduled THEN "scheduled"
                             ELSE "waiting_for_availability",
                  !.scheduled_time = IF scheduled THEN SqlValue(0)
                                     ELSE SqlNull]]

\* The databases the requests find: the users saved in one order or the other.
StoredDatabases ==
    { IF candidateFirst
      THEN savedBy(savedBy(savedBy(withScheduler(RegisteredDatabase, zone,
                                                 duration, scheduled),
                                   0, c, 1), 1, f, 2), 2, g, 3)
      ELSE savedBy(savedBy(savedBy(withScheduler(RegisteredDatabase, zone,
                                                 duration, scheduled),
                                   2, g, 1), 1, f, 2), 0, c, 3) :
          c \in RouteCandidateSubmissions, f \in RouteFirstSubmissions,
          g \in RouteSecondSubmissions, zone \in Zones, duration \in {30, 60},
          scheduled \in BOOLEAN, candidateFirst \in BOOLEAN }

\* getLatestAvailabilityPerUser: the rows carry no date, so the key is the
\* user id; per user, in order of first appearance, the first of its records
\* with the greatest updated_at.
getLatestAvailabilityPerUser(availabilityRecords) ==
    LET first == SelectSeq([i \in 1..Len(availabilityRecords) |-> i],
                     LAMBDA i: \A j \in 1..(i - 1) :
                         availabilityRecords[j].user_id
                             # availabilityRecords[i].user_id)
    IN  MapSeq(first, LAMBDA i:
            LET own == SelectSeq(availabilityRecords, LAMBDA record:
                           record.user_id = availabilityRecords[i].user_id)
                latest == CHOOSE n \in 1..Len(own) :
                              /\ \A m \in 1..Len(own) :
                                     own[m].updated_at <= own[n].updated_at
                              /\ \A m \in 1..(n - 1) :
                                     own[m].updated_at < own[n].updated_at
            IN  own[latest])

\* convertSlots: the records with their slots rebuilt field by field.
convertSlots(arr) ==
    MapSeq(arr, LAMBDA a:
        [a EXCEPT !.time_slots =
            MapSeq(a.time_slots, LAMBDA s:
                [date |-> s.date, start |-> s.start, end |-> s.end])])

\* What the handler reads before it calls the engine.
candidatesOf(users) == SelectSeq(users, LAMBDA u: u.role = "candidate")
interviewersOf(users) == SelectSeq(users, LAMBDA u: u.role = "interviewer")

candidateAvailabilityOf(database, schedulerId) ==
    LET users == getUsersBySchedulerId(database, schedulerId)
    IN  getLatestAvailabilityPerUser(
            SelectSeq(getAvailabilityBySchedulerId(database, schedulerId),
                      LAMBDA a: a.user_id = candidatesOf(users)[1].id))

interviewerAvailabilityOf(database, schedulerId) ==
    LET users == getUsersBySchedulerId(database, schedulerId)
    IN  getLatestAvailabilityPerUser(
            SelectSeq(getAvailabilityBySchedulerId(database, schedulerId),
                      LAMBDA a: \E i \in 1..Len(interviewersOf(users)) :
                                    interviewersOf(users)[i].id = a.user_id))

scheduleRequest(database, scheduler) ==
    [scheduler_id |-> scheduler.id,
     timezone |-> scheduler.timezone,
     interview_duration |-> OrElse(scheduler.interview_duration, DefaultDuration),
     candidate_availability |->
         convertSlots(candidateAvailabilityOf(database, scheduler.id)),
     interviewer_availability |->
         convertSlots(interviewerAvailabilityOf(database, scheduler.id)),
     users |-> getUsersBySchedulerId(database, scheduler.id)]

\* The answer of an early return, 0 when the handler goes on to the engine.
earlyStatus(database, id) ==
    LET scheduler == getSchedulerById(database, id)
        users == getUsersBySchedulerId(database, id)
    IN  IF scheduler = <<>> THEN 404
        ELSE IF candidatesOf(users) = <<>> \/ interviewersOf(users) = <<>>
        THEN 400
        ELSE IF \/ candidateAvailabilityOf(database, id) = <<>>
                \/ interviewerAvailabilityOf(database, id) = <<>>
        THEN 400
        ELSE 0

InitRoute ==
    /\ request = <<>>
    /\ options = <<>>
    /\ pc = "idle"
    /\ idx = 0
    /\ allInterviews = <<>>
    /\ usedCandidateTimeSlots = <<>>
    /\ pass1Count = 0
    /\ response = [kind |-> "pending"]
    /\ ov = NoCall
    /\ runs = <<>>
    /\ db \in StoredDatabases
    /\ now = 3
    /\ \E id \in {"S1", "S2", "S9"} :
           call = [fn |-> "generate-schedule", called |-> FALSE, id |-> id]

\* The handler up to the call of findOptimalSchedule.
GenerateScheduleBegin ==
    /\ call.fn = "generate-schedule"
    /\ pc = "idle"
    /\ now' = now + 1
    /\ IF earlyStatus(db, call.id) # 0
       THEN /\ call' = [fn |-> "generate-schedule", called |-> TRUE,
                        id |-> call.id, status |-> earlyStatus(db, call.id),
                        scheduler |-> getSchedulerById(db, call.id),
                        emails |-> "none"]
            /\ pc' = "responded"
            /\ UNCHANGED <<request, options, idx>>
       ELSE /\ call' = [fn |-> "generate-schedule", called |-> FALSE,
                        id |-> call.id,
                        scheduler |-> getSchedulerById(db, call.id)]
            /\ request' = scheduleRequest(db, getSchedulerById(db, call.id)[1])
            /\ options' = <<>>
            /\ pc' = "pass1"
            /\ idx' = 1
    /\ UNCHANGED <<allInterviews, usedCandidateTimeSlots, pass1Count, response,
                   ov, runs, db>>

\* The handler once findOptimalSchedule has returned.  The e-mail service is
\* outside the server's own code: its calls either all return or one raises,
\* and then the catch clause answers 500.
GenerateScheduleEnd ==
    /\ call.fn = "generate-schedule"
    /\ pc = "done"
    /\ LET scheduleResponse == response.value
           scheduled == /\ scheduleResponse.success
                        /\ "scheduled_time" \in DOMAIN scheduleResponse
       IN  /\ db' = IF scheduled
                    THEN updateSchedulerStatus(db, call.scheduler[1].id,
                             "scheduled", scheduleResponse.scheduled_time, now)
                    ELSE db
           /\ \E delivered \in BOOLEAN :
                  call' = [fn |-> "generate-schedule", called |-> TRUE,
                           id |-> call.id, scheduler |-> call.scheduler,
                           status |-> IF delivered THEN 200 ELSE 500,
                           emails |-> IF scheduled THEN "confirmation"
                                      ELSE "availability request"]
    /\ pc' = "responded"
    /\ UNCHANGED <<request, options, idx, allInterviews,
                   usedCandidateTimeSlots, pass1Count, response, ov, runs, now>>

NextRoute ==
    \/ GenerateScheduleBegin
    \/ Pass1Step
    \/ Pass1Done
    \/ Pass2Step
    \/ Respond
    \/ GenerateScheduleEnd

SpecRoute == InitRoute /\ [][NextRoute]_vars

-----------------------------------------------------------------------------
(* selectBestTimeSlot on its own.                                          *)

MaxSlots == 3

\* Array.prototype.sort with the comparator (a, b) => b.score - a.score: the
\* sort is stable, so entries of equal score keep their order.  By insertion,
\* each entry placed after the entries already placed whose score is not lower.
RECURSIVE sortByScore(_)
sortByScore(scoredSlots) ==
    IF Len(scoredSlots) <= 1 THEN scoredSlots
    ELSE LET sorted == sortByScore(SubSeq(scoredSlots, 1, Len(scoredSlots) - 1))
             last == scoredSlots[Len(scoredSlots)]
             ahead == SelectSeq(sorted, LAMBDA e: e.score >= last.score)
             behind == SelectSeq(sorted, LAMBDA e: e.score < last.score)
         IN  ahead \o <<last>> \o behind

\* Not the code: the first slot of the list, whatever the scores.
selectBestTimeSlot_first(slots) ==
    IF Len(slots) = 0 THEN Throw("TypeError") ELSE Return(slots[1])

\* scoredSlots[0].slot of an empty list raises a TypeError.
selectBestTimeSlot(slots) ==
    LET scoredSlots == MapSeq(slots, LAMBDA slot:
                           [slot |-> slot, score |-> slotScore(slot.start)])
    IN  IF Len(slots) = 1 THEN Return(slots[1])
        ELSE IF Len(slots) = 0 THEN Throw("TypeError")
        ELSE Return(sortByScore(scoredSlots)[1].slot)

\* Start times of every score: on the hour, the half hour, a quarter, a
\* multiple of five and none of these, inside the hours 9 to 17 and outside.
SelectStarts ==
    { <<8, 0>>, <<8, 30>>, <<9, 0>>, <<9, 5>>, <<9, 7>>, <<9, 30>>, <<9, 45>>,
      <<10, 0>>, <<17, 45>>, <<18, 0>>, <<18, 7>> }

SelectSlots ==
    { [date |-> 1, start |-> t, end |-> addMinutesToTime(t, 30)] :
          t \in SelectStarts }

InitSelect ==
    /\ request = <<>>
    /\ options = <<>>
    /\ pc = "idle"
    /\ idx = 0
    /\ allInterviews = <<>>
    /\ usedCandidateTimeSlots = <<>>
    /\ pass1Count = 0
    /\ response = [kind |-> "pending"]
    /\ ov = NoCall
    /\ runs = <<>>
    /\ db = RegisteredDatabase
    /\ now = 0
    /\ \E slots \in { <<>> } \cup SeqsUpTo(SelectSlots, MaxSlots) :
           call = [fn |-> "selectBestTimeSlot", called |-> FALSE,
                   slots |-> slots, result |-> <<>>]

CallSelectBestTimeSlot ==
    /\ call.fn = "selectBestTimeSlot"
    /\ ~call.called
    /\ call' = [call EXCEPT !.called = TRUE,
                            !.result = selectBestTimeSlot(call.slots)]
    /\ UNCHANGED <<request, options, pc, idx, allInterviews,
                   usedCandidateTimeSlots, pass1Count, response, ov, runs,
                   db, now>>

NextSelect == CallSelectBestTimeSlot

SpecSelect == InitSelect /\ [][NextSelect]_vars

-----------------------------------------------------------------------------
(* timeDifference on its own.                                              *)

\* Minutes of the day: both ends, the hours around noon and odd minutes.
DifferenceMinutes ==
    { 0, 1, 59, 60, 539, 540, 600, 719, 720, 721, 1380, 1438, 1439 }

InitDifference ==
    /\ request = <<>>
    /\ options = <<>>
    /\ pc = "idle"
    /\ idx = 0
    /\ allInterviews = <<>>
    /\ usedCandidateTimeSlots = <<>>
    /\ pass1Count = 0
    /\ response = [kind |-> "pending"]
    /\ ov = NoCall
    /\ runs = <<>>
    /\ db = RegisteredDatabase
    /\ now = 0
    /\ \E start \in DifferenceMinutes, end \in DifferenceMinutes :
           call = [fn |-> "timeDifference", called |-> FALSE,
                   start |-> minutesToTime(start), end |-> minutesToTime(end),
                   result |-> 0]

CallTimeDifference ==
    /\ call.fn = "timeDifference"
    /\ ~call.called
    /\ call' = [call EXCEPT !.called = TRUE,
                            !.result = timeDifference(call.start, call.end)]
    /\ UNCHANGED <<request, options, pc, idx, allInterviews,
                   usedCandidateTimeSlots, pass1Count, response, ov, runs,
                   db, now>>

NextDifference == CallTimeDifference

SpecDifference == InitDifference /\ [][NextDifference]_vars

-----------------------------------------------------------------------------
(* Vocabulary of the properties.                                           *)

MinuteOf(timeStr) == timeStr[1] * 60 + timeStr[2]

\* Length in minutes of the part two windows of one date share; negative
\* when they are apart.
SharedMinutes(a, b) ==
    Min(MinuteOf(a.end), MinuteOf(b.end))
        - Max(MinuteOf(a.start), MinuteOf(b.start))

Done == pc = "done"
Succeeded == Done /\ response.kind = "return" /\ response.value.success

candidateSlotsOfRequest ==
    ConcatAll(MapSeq(request.candidate_availability, LAMBDA a: a.time_slots))
interviewerRecords == request.interviewer_availability

\* Position of the first availability record of a user id.
FirstIndex(id) ==
    CHOOSE i \in 1..Len(interviewerRecords) :
        /\ interviewerRecords[i].user_id = id
        /\ \A j \in 1..(i - 1) : interviewerRecords[j].user_id # id

InEncounterOrder(interviews) ==
    \A a, b \in 1..Len(interviews) :
        a < b => FirstIndex(interviews[a].interviewer_id)
                     < FirstIndex(interviews[b].interviewer_id)

\* The conflict test of the specification on the reported fields.
Conflicts(slot, assigned, buffer) ==
    \E p \in 1..Len(assigned) :
        /\ assigned[p].date = slot.date
        /\ MinuteOf(slot.startTime) < MinuteOf(assigned[p].endTime) + buffer
        /\ MinuteOf(slot.endTime) > MinuteOf(assigned[p].startTime)

SameSlot(a, b) ==
    a.date = b.date /\ a.startTime = b.startTime /\ a.endTime = b.endTime

-----------------------------------------------------------------------------
(* Properties.                                                             *)

\* C1: for two windows of one date, each with start < end, every slot that
\* findTimeSlotOverlap returns lies inside both windows and is exactly
\* requiredDuration minutes long.
C1_SlotsInsideBothWindows ==
    ov.called =>
        \A i \in 1..Len(ov.result) :
            LET s == ov.result[i]
            IN  /\ MinuteOf(s.start) >= MinuteOf(ov.slot1.start)
                /\ MinuteOf(s.start) >= MinuteOf(ov.slot2.start)
                /\ MinuteOf(s.end) <= MinuteOf(ov.slot1.end)
                /\ MinuteOf(s.end) <= MinuteOf(ov.slot2.end)
                /\ MinuteOf(s.end) - MinuteOf(s.start) = ov.requiredDuration

\* C2: when no interviewer window shares at least the interview duration with
\* a candidate window of the same date, findOptimalSchedule returns
\* success=false with the fixed "No overlapping time slots" message and no
\* scheduled_time.
NoFeasibleOverlap ==
    \A r \in 1..Len(interviewerRecords) :
        \A i \in 1..Len(interviewerRecords[r].time_slots) :
            \A c \in 1..Len(candidateSlotsOfRequest) :
                LET is == interviewerRecords[r].time_slots[i]
                    cs == candidateSlotsOfRequest[c]
                IN  is.date = cs.date => SharedMinutes(is, cs) < opts.duration

C2_InfeasibleIsReported ==
    (Done /\ NoFeasibleOverlap) =>
        /\ response.kind = "return"
        /\ ~response.value.success
        /\ response.value.message = NoOverlapMessage
        /\ "scheduled_time" \notin DOMAIN response.value

\* C3: in a successful response no two interviews of one date overlap once the
\* earlier-assigned one's end is extended by bufferTime; in particular the
\* candidate is never in two interviews at the same time.
C3_NoBufferedOverlap ==
    Succeeded =>
        LET ivs == response.value.individual_interviews
        IN  \A i, j \in 1..Len(ivs) :
                (i < j /\ ivs[i].date = ivs[j].date) =>
                    /\ ~(/\ MinuteOf(ivs[j].start_time)
                                < MinuteOf(ivs[i].end_time) + opts.bufferTime
                         /\ MinuteOf(ivs[j].end_time) > MinuteOf(ivs[i].start_time))
                    /\ ~(/\ MinuteOf(ivs[j].start_time)
                                < MinuteOf(ivs[i].start_time) + opts.duration
                         /\ MinuteOf(ivs[i].start_time)
                                < MinuteOf(ivs[j].start_time) + opts.duration)

\* C4: of any two interviews assigned on one date, in whichever order they were
\* assigned, the later one in the day starts at least bufferTime minutes after
\* the earlier one ends.
C4_BufferBetweenAnyTwo ==
    Done =>
        \A i, j \in 1..Len(allInterviews) :
            (/\ i # j
             /\ allInterviews[i].date = allInterviews[j].date
             /\ MinuteOf(allInterviews[i].startTime)
                    <= MinuteOf(allInterviews[j].startTime)) =>
                MinuteOf(allInterviews[j].startTime)
                    >= MinuteOf(allInterviews[i].endTime) + opts.bufferTime

\* C5: no interviewer_id appears twice among the assigned interviews, nor in
\* individual_interviews of the response.
C5_OneInterviewPerInterviewer ==
    /\ \A i, j \in 1..Len(allInterviews) :
           i < j => allInterviews[i].interviewer_id # allInterviews[j].interviewer_id
    /\ Succeeded =>
           LET ivs == response.value.individual_interviews
           IN  \A i, j \in 1..Len(ivs) :
                   i < j => ivs[i].interviewer_id # ivs[j].interviewer_id

\* An interviewer with two availability records, on two dates the candidate
\* offers too, is in the response once.
C5_Witness ==
    /\ Succeeded
    /\ Len(interviewerRecords) = 2
    /\ interviewerRecords[1].user_id = interviewerRecords[2].user_id
    /\ interviewerRecords[1].time_slots[1].date
           # interviewerRecords[2].time_slots[1].date
    /\ \A r \in 1..2 : \E c \in 1..Len(candidateSlotsOfRequest) :
           candidateSlotsOfRequest[c] = interviewerRecords[r].time_slots[1]
    /\ Len(response.value.individual_interviews) = 1

\* C6: the interviews are listed in interviewer-encounter order, not in time
\* order: the successes of pass 1 in encounter order, then those of pass 2 in
\* encounter order; the response lists them in that same order.
C6_EncounterOrder ==
    /\ pc = "pass1" => InEncounterOrder(allInterviews)
    /\ pc # "pass1" =>
           /\ InEncounterOrder(SubSeq(allInterviews, 1, pass1Count))
           /\ InEncounterOrder(SubSeq(allInterviews, pass1Count + 1,
                                      Len(allInterviews)))
    /\ Succeeded =>
           /\ Len(response.value.individual_interviews) = Len(allInterviews)
           /\ \A i \in 1..Len(allInterviews) :
                  /\ response.value.individual_interviews[i].interviewer_id
                         = allInterviews[i].interviewer_id
                  /\ response.value.individual_interviews[i].start_time
                         = allInterviews[i].startTime

\* Two interviews of one date, the one listed second earlier in the day.
C6_Witness ==
    /\ Succeeded
    /\ Len(response.value.individual_interviews) = 2
    /\ response.value.individual_interviews[1].date
           = response.value.individual_interviews[2].date
    /\ MinuteOf(response.value.individual_interviews[2].start_time)
           < MinuteOf(response.value.individual_interviews[1].start_time)

\* C7: every assigned interviewer holds the first slot of its enumeration
\* (records, their slots, same-date candidate slots, generated offsets) that
\* does not conflict with the interviews assigned before it; a lone
\* interviewer with any slot holds the first generated one.
enumerationOf(interviewerId) ==
    findOverlappingSlots(request.candidate_availability,
        interviewerMapGet(interviewerRecords, interviewerId), opts)

C7_FirstFit ==
    Done =>
      /\ \A n \in 1..Len(allInterviews) :
             LET slots == enumerationOf(allInterviews[n].interviewer_id)
                 before == SubSeq(allInterviews, 1, n - 1)
             IN  \E k \in 1..Len(slots) :
                     /\ SameSlot(slots[k], allInterviews[n])
                     /\ ~Conflicts(slots[k], before, conflictBuffer(opts))
                     /\ \A j \in 1..(k - 1) :
                            Conflicts(slots[j], before, conflictBuffer(opts))
      /\ (Len(interviewerRecords) = 1
             /\ enumerationOf(interviewerRecords[1].user_id) # <<>>) =>
             /\ Len(allInterviews) = 1
             /\ SameSlot(allInterviews[1],
                         enumerationOf(interviewerRecords[1].user_id)[1])

\* An interviewer holds a slot although a later conflict-free slot of its
\* enumeration has a better score.
C7_Witness ==
    /\ Done
    /\ \E n \in 1..Len(allInterviews) :
           LET slots == enumerationOf(allInterviews[n].interviewer_id)
               before == SubSeq(allInterviews, 1, n - 1)
           IN  \E j \in 1..Len(slots) :
                   /\ ~Conflicts(slots[j], before, conflictBuffer(opts))
                   /\ slotScore(slots[j].startTime)
                          > slotScore(allInterviews[n].startTime)

\* C8: two interviewers whose windows share 09:00-10:00 of one date with the
\* candidate, duration 30, buffer 15: interviewer 1 is placed at 09:00-09:30;
\* interviewer 2 is placed in pass 2 at the first generated offset starting at
\* 09:45 or later if there is one, and is left out otherwise.
C8_Scenario ==
    /\ Len(candidateSlotsOfRequest) = 1
    /\ Len(interviewerRecords) = 2
    /\ interviewerRecords[1].user_id # interviewerRecords[2].user_id
    /\ \A r \in 1..2 :
           LET is == interviewerRecords[r].time_slots[1]
               cs == candidateSlotsOfRequest[1]
           IN  /\ is.date = cs.date
               /\ Max(MinuteOf(is.start), MinuteOf(cs.start)) = 9 * 60
               /\ Min(MinuteOf(is.end), MinuteOf(cs.end)) = 10 * 60
    /\ opts.duration = 30
    /\ opts.bufferTime = 15

C8_IdenticalWindows ==
    (Done /\ C8_Scenario) =>
        LET second == enumerationOf(interviewerRecords[2].user_id)
            clear == { k \in 1..Len(second) :
                         MinuteOf(second[k].startTime) >= 9 * 60 + 45 }
        IN  /\ Len(allInterviews) >= 1
            /\ allInterviews[1].interviewer_id = interviewerRecords[1].user_id
            /\ allInterviews[1].startTime = <<9, 0>>
            /\ allInterviews[1].endTime = <<9, 30>>
            /\ IF clear = {}
               THEN Len(allInterviews) = 1
               ELSE /\ Len(allInterviews) = 2
                    /\ pass1Count = 1
                    /\ allInterviews[2].interviewer_id
                           = interviewerRecords[2].user_id
                    /\ \E k \in clear :
                           /\ SameSlot(second[k], allInterviews[2])
                           /\ \A j \in clear : k <= j

\* The scenario was run: interviewer 2 went through pass 2 and is left out.
C8_Witness ==
    /\ Done
    /\ C8_Scenario
    /\ unscheduled = <<interviewerRecords[2].user_id>>
    /\ Len(allInterviews) = 1
    /\ allInterviews[1].startTime = <<9, 0>>

\* C9: when the part an interviewer window and a candidate window of one date
\* share is exactly as long as the duration, the overlap finder returns one
\* slot, that shared part, and the engine assigns it to the interviewer.
C9_Scenario ==
    /\ Len(candidateSlotsOfRequest) = 1
    /\ Len(interviewerRecords) = 1
    /\ interviewerRecords[1].time_slots[1].date = candidateSlotsOfRequest[1].date
    /\ SharedMinutes(interviewerRecords[1].time_slots[1],
                     candidateSlotsOfRequest[1]) = opts.duration

C9_ExactFit ==
    (Done /\ C9_Scenario) =>
        LET is == interviewerRecords[1].time_slots[1]
            cs == candidateSlotsOfRequest[1]
            shared == [date |-> is.date,
                       start |-> IF MinuteOf(is.start) >= MinuteOf(cs.start)
                                 THEN is.start ELSE cs.start,
                       end |-> IF MinuteOf(is.end) <= MinuteOf(cs.end)
                               THEN is.end ELSE cs.end]
        IN  /\ findTimeSlotOverlap(is, cs, opts.duration) = <<shared>>
            /\ Len(allInterviews) = 1
            /\ allInterviews[1].interviewer_id = interviewerRecords[1].user_id
            /\ allInterviews[1].date = shared.date
            /\ allInterviews[1].startTime = shared.start
            /\ allInterviews[1].endTime = shared.end

\* 09:00-10:00 against 09:30-10:30 with duration 30: 09:30-10:00 is assigned.
C9_Witness ==
    /\ Done
    /\ C9_Scenario
    /\ interviewerRecords[1].time_slots[1] = TimeSlotOf(1, WindowA)
    /\ candidateSlotsOfRequest[1] = TimeSlotOf(1, WindowB)
    /\ opts.duration = 30
    /\ allInterviews[1].startTime = <<9, 30>>
    /\ allInterviews[1].endTime = <<10, 0>>

\* C10: a failure raised inside findOptimalSchedule never reaches the caller:
\* the call returns, and after a failure of the time zone conversion it
\* returns success=false, the "Failed to generate schedule" message, an empty
\* suggested_times and no scheduled_time.
C10_FailureIsCaught ==
    Done =>
        /\ response.kind = "return"
        /\ (allInterviews # <<>> /\ request.timezone \notin KnownZones) =>
               response.value = [success |-> FALSE, message |-> FailedMessage,
                                 suggested_times |-> <<>>]

\* The conversion failed on the first assigned interview.
C10_Witness ==
    /\ Done
    /\ allInterviews # <<>>
    /\ request.timezone \notin KnownZones
    /\ response.kind = "return"
    /\ response.value.message = FailedMessage

\* C11: findOptimalSchedule is deterministic: two calls on the same request
\* and options return the same response, whatever calls were made before or
\* between them.
finishedRuns ==
    runs \o (IF Done THEN <<[request |-> request, options |-> options,
                             response |-> response]>>
             ELSE <<>>)

C11_Deterministic ==
    \A i, j \in 1..Len(finishedRuns) :
        (/\ finishedRuns[i].request = finishedRuns[j].request
         /\ finishedRuns[i].options = finishedRuns[j].options) =>
            finishedRuns[i].response = finishedRuns[j].response

\* The same input was scheduled twice with another call in between.
C11_Witness ==
    /\ Done
    /\ Len(runs) = 2
    /\ runs[1].request = request
    /\ runs[1].options = options
    /\ runs[2].request # request
    /\ runs[2].response.value.success
    /\ response.value.success
    /\ Len(response.value.individual_interviews) = 1

\* C12: in every response of findOptimalSchedule, scheduled_time is present
\* only when success is true, and a success response carries a scheduled_time
\* and at least one entry in individual_interviews.
C12_ScheduledTimeIffSuccess ==
    Done =>
        /\ response.kind = "return"
        /\ "scheduled_time" \in DOMAIN response.value => response.value.success
        /\ response.value.success =>
               /\ "scheduled_time" \in DOMAIN response.value
               /\ "individual_interviews" \in DOMAIN response.value
               /\ Len(response.value.individual_interviews) >= 1

\* A failure response for lack of any overlap: no scheduled_time in it.
C12_Witness ==
    /\ Done
    /\ response.kind = "return"
    /\ ~response.value.success
    /\ response.value.message = NoOverlapMessage
    /\ DOMAIN response.value = {"success", "message"}

\* C13: in a success response the primary scheduled_time is that of the first
\* assigned interview in the output order: it equals
\* individual_interviews[0].scheduled_time and
\* all_available_slots[0].scheduled_time.
C13_PrimaryIsFirst ==
    Succeeded =>
        /\ response.value.scheduled_time
               = response.value.individual_interviews[1].scheduled_time
        /\ response.value.scheduled_time
               = response.value.all_available_slots[1].scheduled_time
        /\ response.value.individual_interviews[1].interviewer_id
               = allInterviews[1].interviewer_id
        /\ response.value.scheduled_time
               = allInterviews[1].date * MinutesPerDay
                   + MinuteOf(allInterviews[1].startTime)
                   - utcOffset(request.timezone)

\* Two interviews at different instants, the first one the later of the two.
C13_Witness ==
    /\ Succeeded
    /\ Len(response.value.individual_interviews) = 2
    /\ response.value.individual_interviews[2].scheduled_time
           < response.value.individual_interviews[1].scheduled_time
    /\ response.value.scheduled_time
           = response.value.individual_interviews[1].scheduled_time

\* C14: suggested_times holds the scheduled times of the assigned interviews
\* after the primary one, in output order, min(n - 1, maxSuggestions - 1) of
\* them for n assigned interviews and maxSuggestions >= 1.
C14_SuggestedTimes ==
    (Succeeded /\ opts.maxSuggestions >= 1) =>
        LET n == Len(response.value.individual_interviews)
            suggested == response.value.suggested_times
        IN  /\ Len(suggested) = Min(n - 1, opts.maxSuggestions - 1)
            /\ \A i \in 1..Len(suggested) :
                   suggested[i]
                       = response.value.individual_interviews[i + 1].scheduled_time

\* Two interviews and maxSuggestions 1: the cap leaves no suggestion.
C14_Witness ==
    /\ Succeeded
    /\ "maxSuggestions" \in DOMAIN options
    /\ options.maxSuggestions = 1
    /\ Len(response.value.individual_interviews) = 2
    /\ response.value.suggested_times = <<>>

\* C15: every generated slot has the duration request.interview_duration when
\* that is set and not zero, and 60 minutes when it is unset or zero, whatever
\* duration the options argument carries.
requestedDuration ==
    IF request.interview_duration # 0 THEN request.interview_duration ELSE 60

C15_DurationFromRequest ==
    /\ \A i \in 1..Len(allInterviews) :
           /\ allInterviews[i].duration = requestedDuration
           /\ (MinuteOf(allInterviews[i].endTime)
                   - MinuteOf(allInterviews[i].startTime)) % MinutesPerDay
                  = requestedDuration
    /\ Succeeded =>
           \A i \in 1..Len(response.value.individual_interviews) :
               LET iv == response.value.individual_interviews[i]
               IN  (MinuteOf(iv.end_time) - MinuteOf(iv.start_time))
                       % MinutesPerDay = requestedDuration

\* The options carry a duration of their own and the request's one is used.
C15_Witness ==
    /\ Succeeded
    /\ "duration" \in DOMAIN options
    /\ options.duration # request.interview_duration
    /\ request.interview_duration # 0
    /\ allInterviews[1].duration = request.interview_duration

\* C16: the buffer of the assigner's conflict test is the bufferTime the caller
\* supplied, for every value >= 0 including 0, and the built-in default only
\* when the caller supplied none: every assigned interview is the first slot
\* of its interviewer's enumeration that is clear, by that buffer, of the
\* interviews assigned before it.
suppliedBuffer ==
    IF "bufferTime" \in DOMAIN options
    THEN options.bufferTime ELSE DefaultBufferTime

C16_SuppliedBufferApplied ==
    Done =>
        \A n \in 1..Len(allInterviews) :
            LET slots == enumerationOf(allInterviews[n].interviewer_id)
                before == SubSeq(allInterviews, 1, n - 1)
                clear == { k \in 1..Len(slots) :
                             ~Conflicts(slots[k], before, suppliedBuffer) }
            IN  \E k \in clear :
                    /\ SameSlot(slots[k], allInterviews[n])
                    /\ \A j \in clear : k <= j

\* What the texts of the model are, read by eye: the dates of the form
\* YYYY-MM-DD, and the times of the 24-hour clock with the hour and minute
\* each spells.
WellFormedDates == { Date_2024_01_01 }

ClockTimes ==
    { <<Time_09_00, <<9, 0>>>>, <<Time_09_15, <<9, 15>>>>,
      <<Time_09_45, <<9, 45>>>>, <<Time_10_00, <<10, 0>>>> }

IsClockTime(text) == \E c \in ClockTimes : c[1] = text
ClockOf(text) == (CHOOSE c \in ClockTimes : c[1] = text)[2]

Validated == call.fn = "validateAvailability" /\ call.called

\* The errors validateAvailability returned for slot j of availability i
\* (both counted from 0) whose text starts with message.
Reported(message, i, j) ==
    \E e \in 1..Len(call.result.errors) :
        /\ call.result.errors[e].message = message
        /\ "slotIndex" \in DOMAIN call.result.errors[e]
        /\ call.result.errors[e].index = i
        /\ call.result.errors[e].slotIndex = j

RangeMessage == "Invalid time range: start time must be before end time"

\* C17: validateAvailability on an empty or missing availability list returns
\* valid=false with exactly the one error 'No availability provided'.
C17_EmptyIsRejected ==
    (Validated /\ (~call.availability.given \/ call.availability.value = <<>>)) =>
        call.result = [valid |-> FALSE,
                       errors |-> <<[message |-> "No availability provided"]>>]

\* validateAvailability([]) has returned.
C17_Witness ==
    /\ Validated
    /\ call.availability = Given(<<>>)
    /\ ~call.result.valid
    /\ Len(call.result.errors) = 1

\* C18: validateAvailability is exhaustive, not fail-fast: on a non-empty list
\* every slot of every availability is checked and each violated check (date
\* format, time format, time range) is reported on its own; the slot with date
\* '2024-1-1' and 09:00-10:00 gets the date-format error and no time-range
\* error; valid is true exactly when the error list is empty.
C18_Exhaustive ==
    (Validated /\ call.availability.given /\ call.availability.value # <<>>) =>
        /\ call.result.valid <=> call.result.errors = <<>>
        /\ \A i \in 1..Len(call.availability.value) :
             \A j \in 1..Len(call.availability.value[i].time_slots) :
               LET slot == call.availability.value[i].time_slots[j]
               IN  /\ Reported("Invalid date format", i - 1, j - 1)
                          <=> slot.date \notin WellFormedDates
                   /\ Reported("Invalid time format", i - 1, j - 1)
                          <=> ~(IsClockTime(slot.start) /\ IsClockTime(slot.end))
                   /\ (IsClockTime(slot.start) /\ IsClockTime(slot.end)) =>
                          (Reported(RangeMessage, i - 1, j - 1)
                              <=> ClockOf(slot.start)[1] >= ClockOf(slot.end)[1])
                   /\ slot = ExampleSlot =>
                          /\ Reported("Invalid date format", i - 1, j - 1)
                          /\ ~Reported(RangeMessage, i - 1, j - 1)

\* One call reported the example slot's date, and for a later slot two
\* violated checks at once.
C18_Witness ==
    /\ Validated
    /\ call.availability.given
    /\ Len(call.availability.value) = 2
    /\ call.availability.value[1].time_slots = <<ExampleSlot>>
    /\ Reported("Invalid date format", 0, 0)
    /\ ~Reported(RangeMessage, 0, 0)
    /\ Reported("Invalid date format", 1, 0)
    /\ Reported("Invalid time format", 1, 0)
    /\ Len(call.result.errors) >= 3

\* C19: for a slot whose start and end are times of the clock,
\* validateAvailability reports a time-range error exactly when the start hour
\* is not strictly less than the end hour; the same-hour slot 09:15-09:45 is
\* reported although its start is before its end, and every slot that passes
\* the range check has its start before its end in minutes of the day.
C19_HourOnlyRange ==
    (Validated /\ call.availability.given) =>
        \A i \in 1..Len(call.availability.value) :
          \A j \in 1..Len(call.availability.value[i].time_slots) :
            LET slot == call.availability.value[i].time_slots[j]
            IN  (IsClockTime(slot.start) /\ IsClockTime(slot.end)) =>
                  LET start == ClockOf(slot.start)
                      end == ClockOf(slot.end)
                  IN  /\ Reported(RangeMessage, i - 1, j - 1)
                             <=> ~(start[1] < end[1])
                      /\ ~Reported(RangeMessage, i - 1, j - 1)
                             => MinuteOf(start) < MinuteOf(end)
                      /\ (start = <<9, 15>> /\ end = <<9, 45>>)
                             => Reported(RangeMessage, i - 1, j - 1)

\* 09:15-09:45 on a well-formed date: the range error is the only error.
C19_Witness ==
    /\ Validated
    /\ call.availability
           = Given(<<[user_id |-> 1,
                      time_slots |-> <<TextSlot(Date_2024_01_01, Time_09_15,
                                                Time_09_45)>>]>>)
    /\ Len(call.result.errors) = 1
    /\ Reported(RangeMessage, 0, 0)
    /\ ~call.result.valid

\* C20: overlappingDays is the number of distinct calendar dates that appear
\* in both the candidate's and the interviewers' slots; when no date appears
\* on both sides getSchedulingStats reports overlappingDays = 0 and
\* totalOverlappingHours = 0.
StatsDone == call.fn = "getSchedulingStats" /\ call.called

DatesIn(availability) ==
    { d \in Dates : \E r \in 1..Len(availability) :
                       \E k \in 1..Len(availability[r].time_slots) :
                           availability[r].time_slots[k].date = d }

C20_OverlappingDays ==
    StatsDone =>
        LET shared == DatesIn(call.candidateAvailability)
                          \cap DatesIn(call.interviewerAvailability)
        IN  /\ call.result.overlappingDays = Cardinality(shared)
            /\ shared = {} =>
                   /\ call.result.overlappingDays = 0
                   /\ call.result.totalOverlappingHours = 0

\* The candidate has slots on one date only, the interviewers on the other.
C20_Witness ==
    /\ StatsDone
    /\ DatesIn(call.candidateAvailability) = {1}
    /\ DatesIn(call.interviewerAvailability) = {2}
    /\ call.result.overlappingDays = 0
    /\ call.result.totalOverlappingHours = 0
    /\ call.result.totalCandidateSlots = 2

\* Total length, in minutes, of the parts the same-date (interviewer window,
\* candidate window) pairs share.
IntersectionMinutes(candidateAvailability, interviewerAvailability) ==
    LET candidateSlots == allSlotsOf(candidateAvailability)
        interviewerSlots == allSlotsOf(interviewerAvailability)
    IN  SumSeq(ConcatAll(MapSeq(interviewerSlots, LAMBDA i:
            MapSeq(candidateSlots, LAMBDA c:
                IF i.date = c.date THEN Max(0, SharedMinutes(i, c)) ELSE 0))))

\* C21: totalOverlappingHours of getSchedulingStats is the total length, in
\* hours, of the intersections of all same-date (interviewer window, candidate
\* window) pairs.  Stated in minutes: sixty times the reported hours equals
\* the summed length of the intersections.
C21_RawOverlapCapacity ==
    StatsDone =>
        call.result.totalOverlappingHours * 60
            = IntersectionMinutes(call.candidateAvailability,
                                  call.interviewerAvailability)

\* The availability rows of one user with one scheduler.
RowsOf(database, user_id, scheduler_id) ==
    SelectSeq(database.availability, LAMBDA row:
        row.user_id = user_id /\ row.scheduler_id = scheduler_id)

\* The (user_id, scheduler_id) pairs of the users table.
RegisteredPairs(database) ==
    { <<database.users[i].id, database.users[i].scheduler_id>> :
          i \in 1..Len(database.users) }

\* The user a save request that was answered 200 is on behalf of.
SavedFor(database, body) ==
    getUserByEmailAndScheduler(database, body.user_email, body.scheduler_id)[1]

\* C22: after any sequence of saves the store holds at most one availability
\* record per (user_id, scheduler_id); a save that succeeds leaves for its pair
\* exactly one record, whose time slots are those of the submission, with
\* nothing kept of the record before, and leaves the records of every other
\* pair as they were.
C22_SaveReplaces ==
    /\ [](\A pair \in RegisteredPairs(db) :
              Len(RowsOf(db, pair[1], pair[2])) <= 1)
    /\ [][(call'.fn = "availability/save" /\ now' = now + 1
              /\ call'.status = 200) =>
            LET user == SavedFor(db, call'.body)
            IN  /\ Len(RowsOf(db', user.id, user.scheduler_id)) = 1
                /\ JSONparse(RowsOf(db', user.id, user.scheduler_id)[1].time_slots)
                       = normalizedTimeSlots(call'.body.availability)
                /\ \A pair \in RegisteredPairs(db) :
                       pair # <<user.id, user.scheduler_id>> =>
                           RowsOf(db', pair[1], pair[2])
                               = RowsOf(db, pair[1], pair[2])]_vars

\* A second submission of one user has replaced the first, while another
\* user's record is in the store.
C22_Witness ==
    /\ call.fn = "availability/save" /\ call.called /\ call.status = 200
    /\ Len(db.availability) = 2
    /\ now = 3
    /\ Len(RowsOf(db, 0, "S1")) = 1
    /\ RowsOf(db, 0, "S1")[1].id = 3
    /\ JSONparse(RowsOf(db, 0, "S1")[1].time_slots)
           = normalizedTimeSlots(SubmissionOneDay)
    /\ \E i \in 1..2 : db.availability[i].user_id # 0

\* The time of day a number of minutes after midnight spells.
ClockAt(minute) == <<minute \div 60, minute % 60>>

\* The enumeration of start positions the specification states for two
\* windows of one date and a required duration.
StatedStep(availableDuration) == Min(15, Max(1, availableDuration \div 4))

StatedSlots(slot1, slot2, requiredDuration) ==
    LET overlapStart == Max(MinuteOf(slot1.start), MinuteOf(slot2.start))
        availableDuration == SharedMinutes(slot1, slot2) - requiredDuration
        step == StatedStep(availableDuration)
    IN  [n \in 1..(availableDuration \div step + 1) |->
            [date |-> slot1.date,
             start |-> ClockAt(overlapStart + (n - 1) * step),
             end |-> ClockAt(overlapStart + (n - 1) * step + requiredDuration)]]

ConflictTestsDone == call.fn = "conflictTests" /\ call.called

\* C24: the conflict test of the first pass and the inline test of the second
\* give the same answer for every proposed slot, every list of assigned
\* interviews and every buffer: a conflict exactly when some assigned interview
\* of the same date has proposedStart < assignedEnd + buffer and
\* proposedEnd > assignedStart, the buffer being the one the pass applies.
C24_SameConflictTest ==
    ConflictTestsDone =>
        LET stated ==
                \E i \in 1..Len(call.allInterviews) :
                    /\ call.allInterviews[i].date = call.proposedSlot.date
                    /\ MinuteOf(call.proposedSlot.start)
                           < MinuteOf(call.allInterviews[i].endTime)
                                 + conflictBuffer(call.options)
                    /\ MinuteOf(call.proposedSlot.end)
                           > MinuteOf(call.allInterviews[i].startTime)
        IN  /\ call.result.pass1 = call.result.pass2
            /\ call.result.pass1 = stated

\* A slot that starts when an assigned interview of its date ends, with one of
\* another date also assigned: in conflict through the buffer alone.
C24_Witness ==
    /\ ConflictTestsDone
    /\ call.result.pass1 /\ call.result.pass2
    /\ Len(call.allInterviews) = 2
    /\ call.allInterviews[1].date # call.proposedSlot.date
    /\ call.allInterviews[2].date = call.proposedSlot.date
    /\ call.allInterviews[2].endTime = call.proposedSlot.start
    /\ call.options.bufferTime = 30

\* The time range of an interview lies inside a window of the same date.
InsideWindow(interview, window) ==
    /\ window.date = interview.date
    /\ MinuteOf(window.start) <= MinuteOf(interview.start_time)
    /\ MinuteOf(interview.start_time) < MinuteOf(interview.end_time)
    /\ MinuteOf(interview.end_time) <= MinuteOf(window.end)

\* The windows the request holds for an interviewer, over all its records.
interviewerSlotsOfRequest(interviewerId) ==
    allSlotsOf(interviewerMapGet(interviewerRecords, interviewerId))

\* C25: every interview in a response of findOptimalSchedule, for input whose
\* windows all have start < end, lies on a date and within a time range that
\* is inside at least one availability window of its interviewer and inside
\* at least one availability window of the candidate on that date.
C25_InsideAvailability ==
    Succeeded =>
        \A n \in 1..Len(response.value.individual_interviews) :
            LET interview == response.value.individual_interviews[n]
                own == interviewerSlotsOfRequest(interview.interviewer_id)
            IN  /\ \E i \in 1..Len(own) : InsideWindow(interview, own[i])
                /\ \E c \in 1..Len(candidateSlotsOfRequest) :
                       InsideWindow(interview, candidateSlotsOfRequest[c])

omittedInterviewerIds == unscheduledInterviewerIds(ids, allInterviews)

\* A generated slot and an interview of the result are in conflict, the
\* buffer of the merged options included.
InConflict(slot, interview) ==
    /\ interview.date = slot.date
    /\ MinuteOf(slot.startTime) < MinuteOf(interview.endTime) + opts.bufferTime
    /\ MinuteOf(slot.endTime) > MinuteOf(interview.startTime)

\* C27: the assignment is maximal for the greedy order: every interviewer
\* omitted from the result has no generated slot that is free of conflict,
\* buffer included, with the interviews in the result; and the first
\* interviewer in encounter order that has any generated slot is assigned.
C27_MaximalForGreedyOrder ==
    Done =>
        /\ \A u \in 1..Len(omittedInterviewerIds) :
               LET slots == enumerationOf(omittedInterviewerIds[u])
               IN  \A k \in 1..Len(slots) :
                       \E n \in 1..Len(allInterviews) :
                           InConflict(slots[k], allInterviews[n])
        /\ \A i \in 1..Len(ids) :
               (/\ enumerationOf(ids[i]) # <<>>
                /\ \A j \in 1..(i - 1) : enumerationOf(ids[j]) = <<>>) =>
                   \E n \in 1..Len(allInterviews) :
                       allInterviews[n].interviewer_id = ids[i]

RouteAnswered == call.fn = "generate-schedule" /\ pc = "responded"

\* The engine ran and returned success with a scheduled_time.
EngineScheduled ==
    /\ response.kind = "return"
    /\ response.value.success
    /\ "scheduled_time" \in DOMAIN response.value

\* C28: generate-schedule writes to the scheduler entity only on success: once
\* it has answered, the scheduler has status 'scheduled' and the response's
\* scheduled_time exactly when the engine returned success with a
\* scheduled_time; otherwise its status and scheduled_time are the ones the
\* handler found.
C28_WritesOnlyOnSuccess ==
    (RouteAnswered /\ call.scheduler # <<>>) =>
        LET found == call.scheduler[1]
            row == getSchedulerById(db, call.id)[1]
        IN  IF EngineScheduled
            THEN /\ row.status = "scheduled"
                 /\ row.scheduled_time = SqlValue(response.value.scheduled_time)
            ELSE /\ row.status = found.status
                 /\ row.scheduled_time = found.scheduled_time

\* A scheduler that was waiting for availability has been scheduled at the
\* time of the response.
C28_Witness ==
    /\ RouteAnswered
    /\ EngineScheduled
    /\ call.scheduler[1].status = "waiting_for_availability"
    /\ getSchedulerById(db, call.id)[1].status = "scheduled"
    /\ getSchedulerById(db, call.id)[1].scheduled_time.value
           = response.value.scheduled_time

\* The score the specification states for a slot.
StatedScore(slot) ==
    LET minute == slot.start[2]
        hour == slot.start[1]
        bonus == IF minute = 0 THEN 20
                 ELSE IF minute = 30 THEN 15
                 ELSE IF minute % 15 = 0 THEN 10
                 ELSE IF minute % 5 = 0 THEN 5
                 ELSE 0
    IN  100 + bonus + (IF hour \in 9..17 THEN 10 ELSE 0)

SelectDone == call.fn = "selectBestTimeSlot" /\ call.called

\* C29: from a non-empty list selectBestTimeSlot returns the slot with the
\* highest score, the score being 100, plus 20 for a start on the hour, else
\* 15 on the half hour, else 10 on a quarter, else 5 on a multiple of five
\* minutes, plus 10 for a start hour from 9 to 17; among slots of equal score
\* the earliest in the list.
C29_BestScoredSlot ==
    (SelectDone /\ call.slots # <<>>) =>
        /\ call.result.kind = "return"
        /\ \E k \in 1..Len(call.slots) :
               /\ call.result.value = call.slots[k]
               /\ \A j \in 1..Len(call.slots) :
                      StatedScore(call.slots[j]) <= StatedScore(call.slots[k])
               /\ \A j \in 1..(k - 1) :
                      StatedScore(call.slots[j]) < StatedScore(call.slots[k])

\* Three slots, the best two of equal score and not at the head of the list:
\* the earlier of the two is returned.
C29_Witness ==
    /\ SelectDone
    /\ Len(call.slots) = 3
    /\ StatedScore(call.slots[1]) < StatedScore(call.slots[2])
    /\ StatedScore(call.slots[2]) = StatedScore(call.slots[3])
    /\ call.slots[2] # call.slots[3]
    /\ call.result.value = call.slots[2]

DifferenceDone == call.fn = "timeDifference" /\ call.called

\* C30: for times within a day, timeDifference(start, end) is end - start
\* when end is not before start and end + 1440 - start when it is; the result
\* is never negative and always below 1440.
C30_DifferenceWithinADay ==
    DifferenceDone =>
        /\ call.result =
               IF call.end.totalMinutes >= call.start.totalMinutes
               THEN call.end.totalMinutes - call.start.totalMinutes
               ELSE call.end.totalMinutes + 1440 - call.start.totalMinutes
        /\ call.result >= 0
        /\ call.result < 1440

\* An end before the start: counted into the next day.
C30_Witness ==
    /\ DifferenceDone
    /\ call.start.totalMinutes = 1380
    /\ call.end.totalMinutes = 60
    /\ call.result = 120

====
